---- MODULE Spec2Model ----
(***************************************************************************)
(* A model of the Go test harness: src/main.go (the hardened variant, with *)
(* a visible terminal, a screenshot and a 10-second timeout) and           *)
(* src/unnamed/part_000 (the earlier variant, headless, with a 30-second   *)
(* timeout).  Text is modelled by TLA+ strings, files by sequences of      *)
(* length 0 (no such file) or 1 (the file's bytes).                        *)
(***************************************************************************)
EXTENDS Integers, Sequences, FiniteSets, TLC

\* ------------------------------------------------------------------ bounds

\* Candidate slots probed by main (the source probes 1..9).
MaxSlot == 2
\* Orchestrator runs over the same task directory.
MaxRuns == 2

\* Environment faults (a refused write, an unreadable file, a terminal that
\* does not start, a failed screenshot) followed in one behaviour.
MaxFaults == 1
\* Hex digits kept of a digest (the source keeps 64).
DigestHexLen == 4

Slots == 1..MaxSlot

\* ------------------------------------------------------------------- text

Contains(s, m) ==
    \E t \in {s} : \E i \in 1..(Len(t) - Len(m) + 1) : SubSeq(t, i, i + Len(m) - 1) = m

HasPrefix(s, p) == Len(s) >= Len(p) /\ SubSeq(s, 1, Len(p)) = p

HasSuffix(s, p) == Len(s) >= Len(p) /\ SubSeq(s, Len(s) - Len(p) + 1, Len(s)) = p

IsSpace(c) == c \in {" ", "\t", "\n", "\r"}

\* The member of a set of one: {F(x) : x \in {e}} computes e once, however
\* often F uses it.
The(S) == CHOOSE v \in S : TRUE

RECURSIVE TrimLeft(_)
TrimLeft(s) ==
    IF Len(s) > 0 /\ IsSpace(SubSeq(s, 1, 1))
    THEN The({TrimLeft(rest) : rest \in {SubSeq(s, 2, Len(s))}})
    ELSE s

RECURSIVE TrimRight(_)
TrimRight(s) ==
    IF Len(s) > 0 /\ IsSpace(SubSeq(s, Len(s), Len(s)))
    THEN The({TrimRight(rest) : rest \in {SubSeq(s, 1, Len(s) - 1)}})
    ELSE s

TrimSpace(s) == The({TrimRight(t) : t \in {TrimLeft(s)}})

Digits == "123456789"

Itoa(n) == SubSeq(Digits, n, n)

Letters == "ABCDEFGHIJKLMNOPQRSTUVWXYZ"

DecimalDigits == "0123456789"

IsDigit(c) == \E i \in 1..10 : SubSeq(DecimalDigits, i, i) = c

DigitValue(c) == (CHOOSE i \in 1..10 : SubSeq(DecimalDigits, i, i) = c) - 1

\* fmt's %d of a natural number.
RECURSIVE FormatInt(_)
FormatInt(n) ==
    IF n < 10 THEN SubSeq(DecimalDigits, n + 1, n + 1)
    ELSE FormatInt(n \div 10) \o SubSeq(DecimalDigits, (n % 10) + 1, (n % 10) + 1)

\* The least member of a non-empty set of positions.
Least(ps) == The({(CHOOSE k \in S : \A j \in S : k <= j) : S \in {ps}})

\* The position of the first occurrence of m in s from position i on; 0: none.
IndexFrom(s, m, i) ==
    \* t: the text, at: the positions of m in it
    The({The({IF at = {} THEN 0 ELSE Least(at) :
                at \in {{k \in i..(Len(t) - Len(m) + 1) : SubSeq(t, k, k + Len(m) - 1) = m}}})
         : t \in {s}})

\* The lines of a text: split at each newline; a last line without one
\* counts, an empty rest after the last newline does not (bufio.ScanLines,
\* which also drops a carriage return before the newline).
RECURSIVE ScanLines(_)
ScanLines(s) ==
    IF Len(s) = 0 THEN <<>>
    ELSE The({
        LET raw == IF k = 0 THEN s ELSE SubSeq(s, 1, k - 1)
            line == IF HasSuffix(raw, "\r") THEN SubSeq(raw, 1, Len(raw) - 1) ELSE raw
        IN  IF k = 0 THEN <<line>>
            ELSE The({<<line>> \o ScanLines(rest) : rest \in {SubSeq(s, k + 1, Len(s))}})
        : k \in {IndexFrom(s, "\n", 1)}})

\* strings.Split at each occurrence of sep (a text without sep is one piece).
RECURSIVE Split(_, _)
Split(s, sep) ==
    The({IF k = 0 THEN <<s>>
         ELSE The({<<SubSeq(s, 1, k - 1)>> \o Split(rest, sep) :
                     rest \in {SubSeq(s, k + Len(sep), Len(s))}})
         : k \in {IndexFrom(s, sep, 1)}})

\* The position after the run of digits that starts at i (i: no digit there).
DigitsEnd(s, i) ==
    The({Least({k \in i..(Len(t) + 1) : k = Len(t) + 1 \/ ~IsDigit(SubSeq(t, k, k))})
         : t \in {s}})

\* The position after the run of white space (the regexp's \s) that starts at i.
SpacesEnd(s, i) ==
    The({Least({k \in i..(Len(t) + 1) :
                  k = Len(t) + 1 \/ SubSeq(t, k, k) \notin {" ", "\t", "\n", "\r", "\f"}})
         : t \in {s}})

\* strconv's reading of a run of digits.
RECURSIVE ParseNat(_)
ParseNat(d) ==
    IF Len(d) = 0 THEN 0
    ELSE The({ParseNat(front) : front \in {SubSeq(d, 1, Len(d) - 1)}}) * 10
            + DigitValue(SubSeq(d, Len(d), Len(d)))

\* A percentage is kept in tenths of a percent; %.1f prints it.
FormatTenths(t) == FormatInt(t \div 10) \o "." \o FormatInt(t % 10)

\* ------------------------------------------------------------------ files

NoFile == <<>>

FileOf(bytes) == <<bytes>>

Exists(f) == Len(f) = 1

Bytes(f) == f[1]

\* The outcomes of os.WriteFile: written; refused at open (nothing changes);
\* failed after the open, which has created or truncated the file.
WriteOutcomes == {"ok", "fail_open", "fail_write"}

\* What a fallible step costs: one fault unless it went well.
Cost(how) == IF how = "ok" THEN 0 ELSE 1

Miss(ok) == IF ok THEN 0 ELSE 1

WriteFile(old, bytes, how) ==
    CASE how = "ok" -> FileOf(bytes)
      [] how = "fail_open" -> old
      [] how = "fail_write" -> FileOf("")

\* ----------------------------------------------------------------- hasher

HexDigits == "0123456789abcdef"

ByteChars == HexDigits \o "ghijklmnopqrstuvwxyz \n\t_.ABCDEFGHIJKLMNOPQRSTUVWXYZ/*(){}="

CharCode(c) == CHOOSE i \in 1..Len(ByteChars) : SubSeq(ByteChars, i, i) = c

RECURSIVE Pow16(_)
Pow16(n) == IF n = 0 THEN 1 ELSE 16 * Pow16(n - 1)

DigestMod == Pow16(DigestHexLen)

\* The digest's compression, one byte at a time, at the digest's width.
RECURSIVE Compress(_, _)
Compress(h, s) ==
    IF Len(s) = 0 THEN h
    ELSE The({Compress(next, rest) :
                next \in {(h * 31 + CharCode(SubSeq(s, 1, 1))) % DigestMod},
                rest \in {SubSeq(s, 2, Len(s))}})

RECURSIVE EncodeToString(_, _)
EncodeToString(v, n) ==
    IF n = 0 THEN ""
    ELSE EncodeToString(v \div 16, n - 1) \o SubSeq(HexDigits, (v % 16) + 1, (v % 16) + 1)

Sha256Hex(bytes) ==
    The({EncodeToString(sum, DigestHexLen) : sum \in {The({Compress(7, b) : b \in {bytes}})}})

\* A digest that takes a file it cannot read for an empty one.
calculateFileHashLenient(f) ==
    <<TRUE, Sha256Hex(IF Exists(f) THEN Bytes(f) ELSE "")>>

\* calculateFileHash: <<ok, hex digest>>.
calculateFileHash(f) ==
    IF Exists(f) THEN <<TRUE, Sha256Hex(Bytes(f))>> ELSE <<FALSE, "">>

\* A fingerprint that digests the two digests in the order of their values.
generateCombinedHashSorted(responseFile, testFile) ==
    LET responseHash == calculateFileHash(responseFile)
        testHash == calculateFileHash(testFile)
        first == Compress(7, responseHash[2]) <= Compress(7, testHash[2])
    IN  IF ~responseHash[1] THEN <<FALSE, "">>
        ELSE IF ~testHash[1] THEN <<FALSE, "">>
        ELSE IF first THEN <<TRUE, Sha256Hex(responseHash[2] \o testHash[2])>>
        ELSE <<TRUE, Sha256Hex(testHash[2] \o responseHash[2])>>

\* generateCombinedHash: <<ok, fingerprint>>.
generateCombinedHash(responseFile, testFile) ==
    LET responseHash == calculateFileHash(responseFile)
        testHash == calculateFileHash(testFile)
    IN  IF ~responseHash[1] THEN <<FALSE, "">>
        ELSE IF ~testHash[1] THEN <<FALSE, "">>
        ELSE <<TRUE, Sha256Hex(responseHash[2] \o testHash[2])>>

\* ------------------------------------------------------------------ names

responseName(n) == "response" \o Itoa(n)

\* renameResponse: response<N> becomes response_<letter N>; 1..26 only.
renameResponse(n) ==
    IF n < 1 \/ n > 26 THEN responseName(n)
    ELSE "response_" \o SubSeq(Letters, n, n)

tempName(n) == "temp_" \o responseName(n) \o ".go"

signalName(name) == "screenshot_done_" \o name \o ".signal"

batchName(name) == "test_" \o name \o ".bat"

screenshotName(name) == name \o ".png"

CoverageFiles == {"coverage.out", "coverage.html"}

\* ------------------------------------------------------------ environment

Variants == {"hardened", "basic"}

Systems == {"windows", "darwin", "linux"}

\* What the file named env may hold.
EnvContents ==
    { "TASK_ID=t7\n",
      "# task\r\n  TASK_ID=t7  \r\nTASK_ID=zz\n",
      "TASK_ID=zz\nTASK_ID=t7\n",
      "OTHER=1\ntask_id=t7\nMY_TASK_ID=t7",
      "TASK_ID=\n",
      "" }

\* Bytes a candidate file may hold, and bytes the shared test may hold.
RespContents == {"package a\nv1", "package a\nv2"}

TestContents == {"package main\nt1", "package main\nt2"}

\* What one execution of "go test -v" may do when it terminates: its exit
\* code and combined output.  The verdict line of a passing run is "ok", two
\* spaces, a tab; the test prints what it likes besides, so a failing run may
\* print PASSED, or "ok" followed by a tab.
ProcOutcomes ==
    { [code |-> 0, out |-> "--- PASS: T\nPASS\nok  \tpkg\t0.1s\n"],
      [code |-> 1, out |-> "--- FAIL: T\nFAIL\n"],
      [code |-> 1, out |-> "step PASSED\n--- FAIL: T\nFAIL\n"],
      [code |-> 1, out |-> "ok\tstep\n--- FAIL: T\nFAIL\n"] }

\* ------------------------------------------------------------------ state

VARIABLES
    env,          \* the environment: program variant, GOOS, runs to follow, faults still to
                  \* come, the file named env, the directories beside it
    testFile,     \* <task>/main_test.go
    resp,         \* resp[n]: <task>/response<n>/response<n>.go
    hashCache,    \* hashCache[n]: <task>/response<n>/hash.cache
    resultTxt,    \* resultTxt[n]: <task>/response<n>/result.txt
    workFiles,    \* names of the plain files of the task directory (temp, signal, batch, coverage)
    pictures,     \* names of the screenshots saved in <task>/pictures
    mainPc,       \* main's position
    run,          \* orchestrator runs started so far
    exitCode,     \* the last run's exit status (-1: none yet)
    pairs,        \* main's responsePairs: the discovered slots, in order
    idx,          \* main's loop index into pairs
    results,      \* main's results
    notified,     \* desktop notifications sent in this run, in order
    report,       \* the aggregated report file of this run
    rpc,          \* the position inside runGoTest / openTerminalAndRunTest
    cur,          \* the slot runGoTest is working on
    currentHash,  \* runGoTest's currentHash
    result,       \* the TestResult being built
    output,       \* openTerminalAndRunTest's output (part_000: testOutput)
    testErr,      \* openTerminalAndRunTest's testErr ("" is nil)
    timedOut,     \* openTerminalAndRunTest's timedOut
    temp,         \* <task>/temp_response<n>.go as modifyPackageToMain wrote it for this call
    wpc,          \* the worker goroutine's position
    procRoot,     \* the "go test" process the worker started
    procChild,    \* the test binary it spawned
    procOut,      \* what the process tree produced when it terminated
    timer,        \* the timeout of the select: off, armed, fired
    term,         \* term[n]: the terminal window opened for slot n
    cov,          \* the Coverage Analyzer: <task>/main.go, main_coverage.cache,
                  \* main_coverage_result.txt, and the result it builds
    hist          \* history of the current invocation and of earlier runs

fsVars == <<testFile, resp, hashCache, resultTxt, workFiles, pictures>>

mainVars == <<mainPc, run, exitCode, pairs, idx, results, notified, report>>

runVars == <<rpc, cur, currentHash, result, output, testErr, timedOut, temp>>

procVars == <<wpc, procRoot, procChild, procOut, timer>>

vars == <<env, fsVars, mainVars, runVars, procVars, term, cov, hist>>

variant == env.variant

goos == env.goos

\* The step may go wrong in k ways at once if that many faults are left.
Spend(k) ==
    /\ k <= env.faultsLeft
    /\ env' = [env EXCEPT !.faultsLeft = @ - k]

NoResult == [Name |-> "", Success |-> FALSE, Output |-> "", Cached |-> FALSE]

NoOutcome == [code |-> 0, out |-> ""]

\* A MainCoverageResult; the percentages are in tenths of a percent.
MainCoverageResult(line, branch, text, cached) ==
    [LineCoverage |-> line, BranchCoverage |-> branch, CoverageReport |-> text,
     Cached |-> cached]

\* hist.cov, of this run's coverage analysis: how its cache check ended, the
\* tools it ran, the terminals it opened, the two cache files as it met them,
\* the outcomes of its two cache writes, and what the line tool and the
\* branch tool returned (<<>>: not called, else one <<output, err>>).
NoCovHist ==
    [lookup |-> "none", ran |-> {}, opened |-> {}, before |-> <<>>, writes |-> <<>>,
     line |-> <<>>, branch |-> <<>>]

\* hist.inv, of the current runGoTest call: the external processes it
\* started, whether its screenshot was taken and its sentinel written, how
\* its cache check ended and the two cache files as that check met them,
\* whether the runner returned an error, whether the command was running
\* when the bound elapsed, the outcomes of its two cache writes, how the
\* launch of its terminal went.
\* hist.stored: per slot, the fingerprint and report of the last store, and
\* the Success returned with it, if both writes went well; hist.thisFp /
\* hist.prevFp: the fingerprint this run / the run before computed per
\* slot; hist.executed: the slots whose test
\* this run executed; hist.invoked: the slots runGoTest was called for in
\* this run, in order; hist.reported: this run has written its report;
\* hist.cov: what the coverage analysis of this run did; hist.hashed: every
\* fingerprint generateCombinedHash has returned, with the run, the slot and
\* the two files as it read them.
NoHist ==
    [started |-> {}, shot |-> FALSE, signalled |-> FALSE, lookup |-> "none",
     before |-> <<>>, runnerErr |-> FALSE, expiredRunning |-> FALSE,
     writes |-> <<>>, launch |-> "none"]

\* The usual surroundings: env names the task t7 and its directory exists.
Plain(e) == e.envFile = FileOf("TASK_ID=t7\n") /\ e.dirs = {"t7"}

Init ==
    /\ env \in [variant : Variants, goos : Systems, runLimit : 1..MaxRuns,
                 faultsLeft : 0..MaxFaults,
                 envFile : {NoFile} \cup {FileOf(c) : c \in EnvContents},
                 dirs : {{}, {"t7"}}]
    \* part_000 reads GOOS only to pick the notification command
    /\ env.variant = "basic" => env.goos = "linux"
    /\ testFile \in {NoFile, FileOf("package main\nt1")}
    /\ resp \in [Slots -> {NoFile, FileOf("package a\nv1")}]
    \* no directory, no files in it
    /\ env.dirs = {} => (testFile = NoFile /\ \A n \in Slots : resp[n] = NoFile)
    \* other surroundings are followed on linux, for one run of one candidate
    /\ ~Plain(env) => /\ env.goos = "linux"
                      /\ env.runLimit = 1
                      /\ \A n \in Slots : n > 1 => resp[n] = NoFile
    \* several runs are followed for a single candidate, several candidates
    \* for a single run
    /\ env.runLimit > 1 => \A n \in Slots : n > 1 => resp[n] = NoFile
    /\ hashCache = [n \in Slots |-> NoFile]
    /\ resultTxt = [n \in Slots |-> NoFile]
    /\ workFiles = {}
    /\ pictures = {}
    /\ mainPc = "idle"
    /\ run = 0
    /\ exitCode = -1
    /\ pairs = <<>>
    /\ idx = 0
    /\ results = <<>>
    /\ notified = <<>>
    /\ report = NoFile
    /\ rpc = "idle"
    /\ cur = 0
    /\ currentHash = ""
    /\ result = NoResult
    /\ output = ""
    /\ testErr = ""
    /\ timedOut = FALSE
    /\ temp = NoFile
    /\ wpc = "none"
    /\ procRoot = "none"
    /\ procChild = "none"
    /\ procOut = NoOutcome
    /\ timer = "off"
    /\ term = [n \in Slots |-> "none"]
    /\ cov \in [mainGo : {NoFile, FileOf("package main\nm1")},
                 cache : {NoFile},
                 resultFile : {NoFile},
                 result : {MainCoverageResult(0, 0, "", FALSE)}]
    \* a reference main.go is followed for one candidate
    /\ Exists(cov.mainGo) => /\ Plain(env)
                             /\ Exists(testFile)
                             /\ Exists(resp[1])
                             /\ \A n \in Slots : n > 1 => resp[n] = NoFile
                             /\ env.runLimit > 1 => env.goos = "linux"
    \* two runs over a reference main.go are followed without faults
    /\ env.faultsLeft = IF Exists(cov.mainGo) /\ env.runLimit > 1 THEN 0 ELSE MaxFaults
    /\ hist = [inv |-> NoHist,
               stored |-> [n \in Slots |-> <<>>],
               prevFp |-> [n \in Slots |-> <<>>],
               thisFp |-> [n \in Slots |-> <<>>],
               executed |-> {},
               invoked |-> <<>>,
               reported |-> FALSE,
               cov |-> NoCovHist,
               hashed |-> {}]

\* ------------------------------------------------------------ cache store

\* readHashCache: <<ok, stored fingerprint>>.
readHashCache(cacheFile) ==
    IF Exists(cacheFile) THEN <<TRUE, TrimSpace(Bytes(cacheFile))>> ELSE <<FALSE, "">>

\* A scan that knows the word PASSED only.
PassMarkerWord(text) == Contains(text, "PASSED")

\* The pass markers loadCachedResult scans for.
PassMarker(text) == Contains(text, "PASSED") \/ Contains(text, "ok\t")

\* A load that forgets to flag the result as cached.
loadCachedResultUnflagged(n, resultFile) ==
    IF Exists(resultFile)
    THEN <<TRUE, [Name |-> responseName(n),
                  Success |-> PassMarker(Bytes(resultFile)),
                  Output |-> Bytes(resultFile),
                  Cached |-> FALSE]>>
    ELSE <<FALSE, NoResult>>

\* loadCachedResult: <<ok, TestResult>>.
loadCachedResult(n, resultFile) ==
    IF Exists(resultFile)
    THEN <<TRUE, [Name |-> responseName(n),
                  Success |-> PassMarker(Bytes(resultFile)),
                  Output |-> Bytes(resultFile),
                  Cached |-> TRUE]>>
    ELSE <<FALSE, NoResult>>

\* ------------------------------------------------------- coverage parsing

\* The regexp coverage:\s+(\d+\.?\d*)% tried where "coverage:" stands at k:
\* <<matched, the number in tenths>>.
CoverageAt(s, k) ==
    LET a == k + Len("coverage:")
        b == SpacesEnd(s, a)
        c == DigitsEnd(s, b)
        dot == c <= Len(s) /\ SubSeq(s, c, c) = "."
        d == IF dot THEN c + 1 ELSE c
        e == DigitsEnd(s, d)
    IN  IF b > a /\ c > b /\ e <= Len(s) /\ SubSeq(s, e, e) = "%"
        THEN <<TRUE, ParseNat(SubSeq(s, b, c - 1)) * 10
                       + (IF e > d THEN DigitValue(SubSeq(s, d, d)) ELSE 0)>>
        ELSE <<FALSE, 0>>

RECURSIVE CoverageFrom(_, _)
CoverageFrom(s, i) ==
    LET k == IndexFrom(s, "coverage:", i)
    IN  IF k = 0 THEN 0
        ELSE The({IF m[1] THEN m[2] ELSE The({CoverageFrom(s, j) : j \in {k + 1}})
                  : m \in {CoverageAt(s, k)}})

\* parseCoverageReport: the first "coverage: N%" of the output, or 0.
parseCoverageReport(out) == The({CoverageFrom(s, 1) : s \in {out}})

\* The regexp Condition coverage:\s+(\d+)/(\d+) tried at k:
\* <<matched, covered, total>>.
ConditionAt(s, k) ==
    LET a == k + Len("Condition coverage:")
        b == SpacesEnd(s, a)
        c == DigitsEnd(s, b)
        d == c + 1
        e == DigitsEnd(s, d)
    IN  IF b > a /\ c > b /\ c <= Len(s) /\ SubSeq(s, c, c) = "/" /\ e > d
        THEN <<TRUE, ParseNat(SubSeq(s, b, c - 1)), ParseNat(SubSeq(s, d, e - 1))>>
        ELSE <<FALSE, 0, 0>>

RECURSIVE ConditionFrom(_, _)
ConditionFrom(s, i) ==
    LET k == IndexFrom(s, "Condition coverage:", i)
    IN  IF k = 0 THEN <<FALSE, 0, 0>>
        ELSE The({IF m[1] THEN m ELSE The({ConditionFrom(s, j) : j \in {k + 1}})
                  : m \in {ConditionAt(s, k)}})

TrimPrefix(s, p) == IF HasPrefix(s, p) THEN SubSeq(s, Len(p) + 1, Len(s)) ELSE s

\* covered / total, as a fraction of one instead of a percentage.
RatioOfOne(covered, total) == (covered * 20 + total) \div (2 * total)

\* covered / total * 100, in tenths, rounded as %.1f rounds.
Ratio(covered, total) == (covered * 2000 + total) \div (2 * total)

\* The loop of parseGobcoCoverage over the lines left.
RECURSIVE GobcoLines(_, _, _)
GobcoLines(lines, branchCoverage, coverageReport) ==
    IF Len(lines) = 0 THEN <<branchCoverage, coverageReport>>
    ELSE The({
        LET m == IF Contains(line, "Condition coverage:") THEN ConditionFrom(line, 1)
                 ELSE <<FALSE, 0, 0>>
            b == IF m[1] /\ m[3] > 0 THEN Ratio(m[2], m[3]) ELSE branchCoverage
            r1 == IF m[1]
                  THEN coverageReport \o "Branch Coverage: " \o FormatTenths(b) \o "% ("
                           \o TrimPrefix(line, "Condition coverage: ") \o ")\n"
                  ELSE coverageReport
            r2 == IF Contains(line, "condition")
                     /\ (Contains(line, "never") \/ Contains(line, "times"))
                  THEN r1 \o line \o "\n" ELSE r1
        IN  The({GobcoLines(rest, cover, text) :
                    rest \in {Tail(lines)}, cover \in {b}, text \in {r2}})
        : line \in {TrimSpace(lines[1])}})

\* parseGobcoCoverage: <<branch coverage, report lines>>.
parseGobcoCoverage(out) ==
    The({The({GobcoLines(lines, 0, "") : lines \in {Split(s, "\n")}}) : s \in {out}})

\* ------------------------------------------------------------------- main

\* A discovery that takes every slot of the range, file or no file.
DiscoverAll(n) == [i \in 1..n |-> i]

\* The slots main discovers: ascending, folder and file both present.
RECURSIVE Discover(_)
Discover(n) ==
    IF n = 0 THEN <<>>
    ELSE IF Exists(resp[n]) THEN Append(Discover(n - 1), n) ELSE Discover(n - 1)

\* cleanupTempFiles removes *.bat and temp_*; part_000 has no such step.
cleanupTempFiles(files) ==
    IF variant = "hardened"
    THEN {f \in files : ~HasSuffix(f, ".bat") /\ ~HasPrefix(f, "temp_")}
    ELSE files

NewRunHist ==
    [hist EXCEPT !.inv = NoHist,
                 !.prevFp = [n \in Slots |-> IF hist.thisFp[n] # <<>> THEN hist.thisFp[n]
                                             ELSE hist.prevFp[n]],
                 !.thisFp = [n \in Slots |-> <<>>],
                 !.executed = {},
                 !.invoked = <<>>,
                 !.reported = FALSE,
                 !.cov = NoCovHist]

\* The value of the first line that, trimmed, starts with TASK_ID=.
RECURSIVE FirstTaskID(_)
FirstTaskID(lines) ==
    IF Len(lines) = 0 THEN <<FALSE, "">>
    ELSE LET line == TrimSpace(lines[1])
         IN  IF HasPrefix(line, "TASK_ID=")
             THEN <<TRUE, SubSeq(line, Len("TASK_ID=") + 1, Len(line))>>
             ELSE FirstTaskID(Tail(lines))

\* A reader that falls back on the task t7 when the key is missing.
readEnvFileDefault(f) ==
    IF ~Exists(f) THEN <<FALSE, "">>
    ELSE IF FirstTaskID(ScanLines(Bytes(f)))[1] THEN FirstTaskID(ScanLines(Bytes(f)))
    ELSE <<TRUE, "t7">>

\* readEnvFile: <<ok, task id>>.
readEnvFile(f) ==
    IF ~Exists(f) THEN <<FALSE, "">> ELSE FirstTaskID(ScanLines(Bytes(f)))

\* main, up to the coverage analysis: the env file must name a task, the
\* task's directory and its shared test must exist and at least one candidate
\* must be found, or the process exits with status 1.  main.go clears the
\* temporary files of the directory once it has found it.
MainStart ==
    /\ mainPc = "idle"
    /\ run < env.runLimit
    /\ run' = run + 1
    /\ hist' = NewRunHist
    /\ results' = <<>>
    /\ notified' = <<>>
    /\ idx' = 1
    /\ LET taskID == readEnvFile(env.envFile)
           taskDir == taskID[1] /\ taskID[2] \in env.dirs
           responsePairs == Discover(MaxSlot)
       IN  /\ workFiles' = IF taskDir THEN cleanupTempFiles(workFiles) ELSE workFiles
           /\ \/ /\ ~taskID[1]
                 /\ exitCode' = 1
                 /\ mainPc' = "idle"
                 /\ pairs' = <<>>
              \/ /\ taskID[1]
                 /\ ~taskDir
                 /\ exitCode' = 1
                 /\ mainPc' = "idle"
                 /\ pairs' = <<>>
              \/ /\ taskDir
                 /\ ~Exists(testFile)
                 /\ exitCode' = 1
                 /\ mainPc' = "idle"
                 /\ pairs' = <<>>
              \/ /\ taskDir
                 /\ Exists(testFile)
                 /\ Len(responsePairs) = 0
                 /\ exitCode' = 1
                 /\ mainPc' = "idle"
                 /\ pairs' = <<>>
              \/ /\ taskDir
                 /\ Exists(testFile)
                 /\ Len(responsePairs) # 0
                 /\ exitCode' = -1
                 /\ mainPc' = "mCoverage"
                 /\ pairs' = responsePairs
    /\ UNCHANGED <<env, testFile, resp, hashCache, resultTxt, pictures, report,
                   runVars, procVars, term>>
    /\ UNCHANGED cov

\* The loop body's call: result := runGoTest(responseFile, testFile, ...).
MainCall ==
    /\ mainPc = "mLoop"
    /\ idx <= Len(pairs)
    /\ mainPc' = "mCall"
    /\ rpc' = "gHash"
    /\ cur' = pairs[idx]
    /\ currentHash' = ""
    /\ result' = NoResult
    /\ output' = ""
    /\ testErr' = ""
    /\ timedOut' = FALSE
    /\ temp' = NoFile
    /\ hist' = [hist EXCEPT !.inv = NoHist, !.invoked = Append(@, pairs[idx])]
    /\ UNCHANGED <<env, fsVars, run, exitCode, pairs, idx, results, notified,
                   report, procVars, term>>
    /\ UNCHANGED cov

\* The loop body after the call: append the result, count, notify.
MainCollect ==
    /\ mainPc = "mCall"
    /\ rpc = "gRet"
    /\ results' = Append(results, result)
    /\ notified' = IF result.Success /\ ~result.Cached
                   THEN Append(notified, "passed " \o responseName(cur))
                   ELSE notified
    /\ idx' = idx + 1
    /\ mainPc' = "mLoop"
    \* runGoTest's frame is gone; what it leaked is no longer followed
    /\ rpc' = "idle"
    /\ cur' = 0
    /\ currentHash' = ""
    /\ result' = NoResult
    /\ output' = ""
    /\ testErr' = ""
    /\ timedOut' = FALSE
    /\ temp' = NoFile
    /\ wpc' = "none"
    /\ procRoot' = "none"
    /\ procChild' = "none"
    /\ procOut' = NoOutcome
    /\ timer' = "off"
    /\ hist' = [hist EXCEPT !.inv = NoHist]
    /\ UNCHANGED <<env, fsVars, run, exitCode, pairs, report, term>>
    /\ UNCHANGED cov

Count(seq, P(_)) == Cardinality({i \in 1..Len(seq) : P(seq[i])})

IsPassed(r) == r.Success

\* A count of the cached results that passed, as main keeps for the console.
IsCachedPass(r) == r.Cached /\ r.Success

IsCached(r) == r.Cached

IsTimedOut(r) == Contains(r.Output, "TIMED OUT")

\* The summary line of the report; main.go adds the timeouts when there are
\* any, part_000 does not count them.
SummaryLine(passedCount, total, cachedCount, timedOutCount) ==
    "Summary: " \o FormatInt(passedCount) \o "/" \o FormatInt(total)
        \o " tests passed (" \o FormatInt(cachedCount) \o " cached"
        \o (IF variant = "hardened" /\ timedOutCount > 0
            THEN ", " \o FormatInt(timedOutCount) \o " timed out" ELSE "")
        \o ")"

\* writeResults: the summary line, its counts, and one block per result, in
\* order.
writeResults(rs) ==
    [summary |-> SummaryLine(Count(rs, IsPassed), Len(rs), Count(rs, IsCached),
                             Count(rs, IsTimedOut)),
     passed |-> Count(rs, IsPassed),
     total |-> Len(rs),
     cached |-> Count(rs, IsCached),
     timedOut |-> IF variant = "hardened" THEN Count(rs, IsTimedOut) ELSE 0,
     blocks |-> [i \in 1..Len(rs) |-> rs[i].Name]]

\* After the loop: write the aggregated report (a failure is only printed).
MainWriteResults ==
    /\ mainPc = "mLoop"
    /\ idx > Len(pairs)
    /\ \E created \in BOOLEAN :
          /\ Spend(Miss(created))
          /\ report' = IF created THEN FileOf(writeResults(results)) ELSE report
          /\ hist' = [hist EXCEPT !.reported = created]
    /\ mainPc' = "mFinish"
    /\ UNCHANGED <<fsVars, run, exitCode, pairs, idx, results, notified,
                   runVars, procVars, term>>
    /\ UNCHANGED cov

OpenStates == {"open", "closing", "shell"}

\* killProcessesByTitlePrefix: PowerShell stops the windows titled
\* BCB_response_<letter>; only the Windows batch file sets that title.
killProcessesByTitlePrefix(t) ==
    IF variant = "hardened" /\ goos = "windows"
    THEN [n \in Slots |-> IF t[n] \in OpenStates THEN "closed" ELSE t[n]]
    ELSE t

\* The rest of main: the summary notification, the signal-file sweep, the
\* window sweep, the document; then exit status 0.
MainFinish ==
    /\ mainPc = "mFinish"
    /\ notified' = IF Count(results, IsPassed) > 0 THEN Append(notified, "complete")
                   ELSE notified
    /\ workFiles' = IF variant = "hardened"
                    THEN {f \in workFiles :
                            ~(HasPrefix(f, "screenshot_done_") /\ HasSuffix(f, ".signal"))}
                    ELSE workFiles
    /\ term' = killProcessesByTitlePrefix(term)
    /\ exitCode' = 0
    /\ mainPc' = "idle"
    /\ UNCHANGED <<env, testFile, resp, hashCache, resultTxt, pictures, run,
                   pairs, idx, results, report, runVars, procVars, hist>>
    /\ UNCHANGED cov

\* -------------------------------------------------------------- runGoTest

\* A hasher whose fingerprint also takes in the number of the run.
GenerateHashSalted ==
    /\ rpc = "gHash"
    /\ \E rf \in {resp[cur], NoFile}, tf \in {testFile, NoFile} :
          LET g == generateCombinedHash(rf, tf)
              h == <<g[1], IF g[1] THEN Sha256Hex(g[2] \o FormatInt(run)) ELSE "">>
          IN  /\ Spend(Miss(rf = resp[cur]) + Miss(tf = testFile))
              /\ IF h[1]
                 THEN /\ currentHash' = h[2]
                      /\ rpc' = "gLookup"
                      /\ result' = result
                      /\ hist' = [hist EXCEPT
                             !.thisFp[cur] = <<h[2]>>,
                             !.hashed = @ \cup {[at |-> run, slot |-> cur,
                                                 response |-> rf, test |-> tf,
                                                 fp |-> h[2]]}]
                 ELSE /\ currentHash' = ""
                      /\ rpc' = "gRet"
                      /\ result' = [Name |-> responseName(cur), Success |-> FALSE,
                                    Output |-> "Failed to generate hash: error hashing file",
                                    Cached |-> FALSE]
                      /\ hist' = hist
    /\ UNCHANGED <<fsVars, mainVars, cur, temp, output, testErr, timedOut,
                   procVars, term>>
    /\ UNCHANGED cov

\* generateCombinedHash of the candidate and the shared test; either file
\* may fail to open although main found it.
GenerateHash ==
    /\ rpc = "gHash"
    /\ \E rf \in {resp[cur], NoFile}, tf \in {testFile, NoFile} :
          LET h == generateCombinedHash(rf, tf)
          IN  /\ Spend(Miss(rf = resp[cur]) + Miss(tf = testFile))
              /\ IF h[1]
                 THEN /\ currentHash' = h[2]
                      /\ rpc' = "gLookup"
                      /\ result' = result
                      /\ hist' = [hist EXCEPT
                             !.thisFp[cur] = <<h[2]>>,
                             !.hashed = @ \cup {[at |-> run, slot |-> cur,
                                                 response |-> rf, test |-> tf,
                                                 fp |-> h[2]]}]
                 ELSE /\ currentHash' = ""
                      /\ rpc' = "gRet"
                      /\ result' = [Name |-> responseName(cur), Success |-> FALSE,
                                    Output |-> "Failed to generate hash: error hashing file",
                                    Cached |-> FALSE]
                      /\ hist' = hist
    /\ UNCHANGED <<fsVars, mainVars, cur, temp, output, testErr, timedOut,
                   procVars, term>>
    /\ UNCHANGED cov

\* A check that trusts any stored fingerprint it can read.
HashPresent(cacheFile, fp) == readHashCache(cacheFile)[1]

\* The stored fingerprint was read and equals the fresh one.
HashMatches(cacheFile, fp) ==
    /\ readHashCache(cacheFile)[1]
    /\ readHashCache(cacheFile)[2] = fp

\* A cache check that never answers.
CacheHitOff(n, cacheFile, resultFile, fp) == FALSE

\* The cache check, on the two files as the reads delivered them.
CacheHit(n, cacheFile, resultFile, fp) ==
    /\ HashMatches(cacheFile, fp)
    /\ loadCachedResult(n, resultFile)[1]

\* The cache check: a hit returns the stored result, a miss goes on to run.
\* Either read may fail on a file that exists; result.txt is read only
\* when the fingerprints match.
Lookup ==
    /\ rpc = "gLookup"
    /\ \E cf \in {hashCache[cur], NoFile}, rf \in {resultTxt[cur], NoFile} :
          /\ rf # resultTxt[cur] => HashMatches(cf, currentHash)
          /\ Spend(Miss(cf = hashCache[cur]) + Miss(rf = resultTxt[cur]))
          /\ IF CacheHit(cur, cf, rf, currentHash)
             THEN /\ result' = loadCachedResult(cur, rf)[2]
                  /\ rpc' = "gRet"
                  /\ hist' = [hist EXCEPT !.inv.lookup = "hit"]
             ELSE /\ result' = [Name |-> IF variant = "hardened" THEN renameResponse(cur)
                                         ELSE responseName(cur),
                                Success |-> FALSE, Output |-> "", Cached |-> FALSE]
                  /\ rpc' = IF variant = "hardened" THEN "oEnter" ELSE "bEnter"
                  /\ hist' = [hist EXCEPT !.inv.lookup =
                                                IF cf = hashCache[cur] /\ rf = resultTxt[cur]
                                                THEN "miss" ELSE "unreadable",
                                            !.inv.before = <<hashCache[cur], resultTxt[cur]>>]
    /\ UNCHANGED <<fsVars, mainVars, cur, temp, currentHash, output, testErr,
                   timedOut, procVars, term>>
    /\ UNCHANGED cov

\* A store that updates the fingerprint and leaves the report alone.
StoreFilesHashOnly(w1, w2) ==
    /\ resultTxt' = resultTxt
    /\ hashCache' = [hashCache EXCEPT ![cur] = WriteFile(@, currentHash, w2)]

\* The two writes that end runGoTest: result.txt, then hash.cache.  A failed
\* write is only printed.
StoreFiles(w1, w2) ==
    /\ resultTxt' = [resultTxt EXCEPT ![cur] = WriteFile(@, result'.Output, w1)]
    /\ hashCache' = [hashCache EXCEPT ![cur] = WriteFile(@, currentHash, w2)]

StoreHist(h, w1, w2) ==
    [h EXCEPT !.inv.writes = <<w1, w2>>,
              !.stored[cur] = IF w1 = "ok" /\ w2 = "ok"
                              THEN <<currentHash, result'.Output, result'.Success>>
                              ELSE <<>>]

Store ==
    \E w1 \in WriteOutcomes, w2 \in WriteOutcomes :
       /\ Spend(Cost(w1) + Cost(w2))
       /\ StoreFiles(w1, w2)
       /\ hist' = StoreHist(hist, w1, w2)

\* ------------------------------------------------- shared by both runners

ModifyOutcomes == {"ok", "read_fail", "fail_open", "fail_write"}

WordChars == DecimalDigits \o Letters \o "abcdefghijklmnopqrstuvwxyz_"

IsWordChar(c) == \E i \in 1..Len(WordChars) : SubSeq(WordChars, i, i) = c

\* The position after the run of word characters (the regexp's \w) that
\* starts at i.
WordEnd(s, i) ==
    The({Least({k \in i..(Len(t) + 1) : k = Len(t) + 1 \/ ~IsWordChar(SubSeq(t, k, k))})
         : t \in {s}})

\* The regexp (?m)^package\s+\w+ tried where "package" stands at k: the
\* position after the match, 0 if there is none.
PackageAt(s, k) ==
    LET a == k + Len("package")
        b == SpacesEnd(s, a)
        c == WordEnd(s, b)
    IN  IF (k = 1 \/ SubSeq(s, k - 1, k - 1) = "\n") /\ b > a /\ c > b THEN c ELSE 0

\* re.ReplaceAll(content, "package main") from position i on: every match
\* is replaced, the text between the matches is copied.
RECURSIVE ReplaceAllFrom(_, _)
ReplaceAllFrom(s, i) ==
    The({IF k = 0 THEN SubSeq(s, i, Len(s))
         ELSE The({IF e = 0
                   THEN The({SubSeq(s, i, k) \o ReplaceAllFrom(s, j) : j \in {k + 1}})
                   ELSE SubSeq(s, i, k - 1) \o "package main" \o ReplaceAllFrom(s, e)
                   : e \in {PackageAt(s, k)}})
         : k \in {IndexFrom(s, "package", i)}})

\* modifyPackageToMain's modifiedContent.
modifiedContent(content) == The({ReplaceAllFrom(t, 1) : t \in {content}})

\* The temporary file after modifyPackageToMain: nothing is written when the
\* candidate cannot be read.
WriteTemp(old, src, how) ==
    IF ~Exists(src) \/ how = "read_fail" THEN old
    ELSE WriteFile(old, modifiedContent(Bytes(src)), how)

\* modifyPackageToMain: whether it returns an error and whether the
\* temporary file exists afterwards.
modifyPackageToMain(src, how) ==
    [err |-> how # "ok" \/ ~Exists(src),
     created |-> Exists(src) /\ how \in {"ok", "fail_write"}]

ErrText(code) ==
    CASE code = 0 -> ""
      [] code = 1 -> "exit status 1"
      [] OTHER -> "signal: killed"

RunnerActive ==
    rpc \in {"oSelect", "oShot", "oSignal", "oResult", "bSelect", "bOut"}

RunnerErr(text) ==
    /\ result' = [result EXCEPT !.Output = text]
    /\ rpc' = "gRet"

\* The worker goroutine starts the test command: "go test" and, under it,
\* the test binary.
WorkerStart ==
    /\ RunnerActive
    /\ wpc = "start"
    /\ wpc' = "wait"
    /\ procRoot' = "running"
    /\ procChild' = "running"
    /\ hist' = [hist EXCEPT !.inv.started = @ \cup {"test"}, !.executed = @ \cup {cur}]
    /\ UNCHANGED <<env, fsVars, mainVars, runVars, procOut, timer, term>>
    /\ UNCHANGED cov

\* The test command terminates by itself.
ProcExit ==
    /\ RunnerActive
    /\ procRoot = "running"
    /\ procChild = "running"
    /\ \E o \in ProcOutcomes : procOut' = o
    /\ procRoot' = "exited"
    /\ procChild' = "exited"
    /\ UNCHANGED <<env, fsVars, mainVars, runVars, wpc, timer, term, hist>>
    /\ UNCHANGED cov

\* The test binary outlives a killed "go test" and ends later; it holds the
\* output pipe until then.
OrphanExit ==
    /\ RunnerActive
    /\ procRoot = "killed"
    /\ procChild = "running"
    /\ procChild' = "exited"
    /\ procOut' = [code |-> -1, out |-> ""]
    /\ UNCHANGED <<env, fsVars, mainVars, runVars, wpc, procRoot, timer, term,
                   hist>>
    /\ UNCHANGED cov

\* The bound of the select elapses.  The main flow is parked in the select
\* by then, and the first of the two events decides its case: nothing
\* elapses for a select that done has already woken.
TimerFire ==
    /\ rpc \in {"oSelect", "bSelect"}
    /\ timer = "armed"
    /\ wpc # "done"
    /\ timer' = "fired"
    /\ hist' = [hist EXCEPT !.inv.expiredRunning = (procRoot \notin {"exited", "killed"})]
    /\ UNCHANGED <<env, fsVars, mainVars, runVars, wpc, procRoot, procChild,
                   procOut, term>>
    /\ UNCHANGED cov

\* CombinedOutput returns once the process has ended and its pipe is closed.
CommandDone == procRoot \in {"exited", "killed"} /\ procChild \in {"exited", "killed"}

\* ------------------------------------- openTerminalAndRunTest (main.go)

Cleanup(files, n) ==
    files \ ({tempName(n)} \cup CoverageFiles \cup {signalName(renameResponse(n))})

\* Entry: drop a leftover signal file, then write the temporary source.
\* The deferred cleanup is registered only after that write has succeeded.
OpenEnter ==
    /\ rpc = "oEnter"
    /\ \E how \in ModifyOutcomes :
          LET m == modifyPackageToMain(resp[cur], how)
              files == workFiles \ {signalName(renameResponse(cur))}
          IN  /\ Spend(Cost(how))
              /\ workFiles' = IF m.created THEN files \cup {tempName(cur)} ELSE files
              /\ temp' = WriteTemp(temp, resp[cur], how)
              /\ IF m.err
                 THEN /\ RunnerErr("Failed to run test in terminal: error in modifyPackageToMain")
                      /\ hist' = [hist EXCEPT !.inv.runnerErr = TRUE]
                 ELSE /\ rpc' = "oLaunch"
                      /\ result' = result
                      /\ hist' = hist
    /\ UNCHANGED <<testFile, resp, hashCache, resultTxt, pictures, mainVars,
                   cur, currentHash, output, testErr, timedOut, procVars, term>>
    /\ UNCHANGED cov

LaunchOutcomes == {"ok", "batch_open", "batch_write", "no_terminal", "start_fail"}

LaunchPossible(how) ==
    CASE how \in {"batch_open", "batch_write"} -> goos = "windows"
      [] how = "no_terminal" -> goos = "linux"
      [] OTHER -> TRUE

\* The batch file exists after the launch step on Windows unless its write
\* was refused at open; the deferred os.Remove is registered only after a
\* successful write.
BatchLeft(how) ==
    goos = "windows" /\ how = "batch_write"

\* The OS branch and cmd.Start.  On success the terminal window is open and
\* runs its own copy of the test command; the worker goroutine is started.
OpenLaunch ==
    /\ rpc = "oLaunch"
    /\ \E how \in LaunchOutcomes :
          /\ LaunchPossible(how)
          /\ Spend(Cost(how))
          /\ IF how = "ok"
             THEN /\ workFiles' = IF goos = "windows"
                                  THEN workFiles \cup {batchName(renameResponse(cur))}
                                  ELSE workFiles
                  /\ term' = [term EXCEPT ![cur] = "open"]
                  /\ rpc' = "oSelect"
                  /\ result' = result
                  /\ wpc' = "start"
                  /\ timer' = "armed"
                  /\ procRoot' = "none"
                  /\ procChild' = "none"
                  /\ procOut' = NoOutcome
                  /\ hist' = [hist EXCEPT !.inv.started = @ \cup {"terminal"},
                                            !.inv.launch = how,
                                            !.executed = @ \cup {cur}]
             ELSE /\ workFiles' = Cleanup(workFiles, cur)
                                  \cup (IF BatchLeft(how)
                                        THEN {batchName(renameResponse(cur))} ELSE {})
                  /\ RunnerErr("Failed to run test in terminal: " \o how)
                  /\ hist' = [hist EXCEPT !.inv.runnerErr = TRUE, !.inv.launch = how]
                  /\ UNCHANGED <<term, procVars>>
    /\ UNCHANGED <<testFile, resp, hashCache, resultTxt, pictures, mainVars,
                   cur, temp, currentHash, output, testErr, timedOut>>
    /\ UNCHANGED cov

\* The worker of main.go: output, testErr = testCmdExec.CombinedOutput(),
\* then close(done).
WorkerFinish ==
    /\ variant = "hardened"
    /\ RunnerActive
    /\ wpc = "wait"
    /\ CommandDone
    /\ output' = procOut.out
    /\ testErr' = ErrText(procOut.code)
    /\ wpc' = "done"
    /\ UNCHANGED <<env, fsVars, mainVars, rpc, cur, temp, currentHash, result,
                   timedOut, procRoot, procChild, procOut, timer, term, hist>>
    /\ UNCHANGED cov

\* case <-done
SelectDone ==
    /\ rpc = "oSelect"
    /\ wpc = "done"
    /\ timer # "fired"
    /\ rpc' = "oShot"
    /\ UNCHANGED <<env, fsVars, mainVars, cur, temp, currentHash, result, output,
                   testErr, timedOut, procVars, term, hist>>
    /\ UNCHANGED cov

\* killProcessTree: taskkill /F /T on Windows; on darwin and linux the kill
\* of the process group is commented out.
killProcessTree(root, child) ==
    IF goos = "windows"
    THEN <<IF root = "running" THEN "killed" ELSE root,
           IF child = "running" THEN "killed" ELSE child>>
    ELSE <<root, child>>

\* case <-ctx.Done(): timedOut = true, kill if the process was started,
\* sleep two seconds, then output and testErr are overwritten.
SelectTimeout ==
    /\ rpc = "oSelect"
    /\ timer = "fired"
    /\ timedOut' = TRUE
    /\ LET k == IF wpc = "start" THEN <<procRoot, procChild>>
                ELSE killProcessTree(procRoot, procChild)
       IN  /\ procRoot' = k[1]
           /\ procChild' = k[2]
           /\ procOut' = IF k[1] = "killed" THEN [code |-> 1, out |-> ""] ELSE procOut
    /\ output' = "Test timed out after 10 seconds"
    /\ testErr' = "test execution timed out"
    /\ rpc' = "oShot"
    /\ UNCHANGED <<env, fsVars, mainVars, cur, temp, currentHash, result, wpc, timer,
                   term, hist>>
    /\ UNCHANGED cov

\* takeScreenshot: may fail, which is only printed.
TakeScreenshot ==
    /\ rpc = "oShot"
    /\ \E ok \in BOOLEAN :
          /\ Spend(Miss(ok))
          /\ pictures' = IF ok THEN pictures \cup {screenshotName(renameResponse(cur))}
                         ELSE pictures
          /\ hist' = [hist EXCEPT !.inv.started = @ \cup {"screenshot"}, !.inv.shot = TRUE]
    /\ rpc' = "oSignal"
    /\ UNCHANGED <<testFile, resp, hashCache, resultTxt, workFiles,
                   mainVars, cur, temp, currentHash, result, output, testErr, timedOut, procVars,
                   term>>
    /\ UNCHANGED cov

\* os.WriteFile(signalFile, "done"): a failed write is only printed.
WriteSignal ==
    /\ rpc = "oSignal"
    /\ \E w \in WriteOutcomes :
          /\ Spend(Cost(w))
          /\ workFiles' = IF w = "fail_open" THEN workFiles
                          ELSE workFiles \cup {signalName(renameResponse(cur))}
          /\ hist' = [hist EXCEPT !.inv.signalled = (w # "fail_open")]
    /\ rpc' = "oResult"
    /\ UNCHANGED <<testFile, resp, hashCache, resultTxt, pictures, mainVars,
                   cur, temp, currentHash, result, output, testErr, timedOut, procVars, term>>
    /\ UNCHANGED cov

TestOutputText(out) == "=== Test Output ===\n" \o out \o "\n"

\* openTerminalAndRunTest's result after the select.
RunResult ==
    [result EXCEPT
       !.Output = IF timedOut
                  THEN TestOutputText(output) \o "\n⏰ TEST TIMED OUT AFTER 10 SECONDS\n"
                  ELSE IF testErr = "" THEN TestOutputText(output)
                  ELSE TestOutputText(output) \o "\nTest Error: " \o testErr \o "\n",
       !.Success = ~timedOut /\ testErr = ""]

\* After the two-second sleep: build the result and return; the deferred
\* calls remove the batch file, the temporary source, the coverage files and
\* the signal file; runGoTest stores the result and returns it.
PrepareResult ==
    /\ rpc = "oResult"
    /\ result' = RunResult
    /\ workFiles' = Cleanup(workFiles, cur) \ {batchName(renameResponse(cur))}
    /\ Store
    /\ rpc' = "gRet"
    /\ UNCHANGED <<testFile, resp, pictures, mainVars, cur, temp, currentHash, output,
                   testErr, timedOut, procVars, term>>
    /\ UNCHANGED cov

\* ------------------------------------------------------------- the terminal

\* The terminal's own copy of the test command fails.  The batch file goes
\* on to its wait loop whatever the exit code; the shell one-liner chains
\* with &&, so after a failing test the wait loop is skipped: bash -c ends and
\* the window closes (linux), or the tab stays at its prompt (darwin).
TermTestFailed(n) ==
    /\ term[n] = "open"
    /\ goos # "windows"
    /\ term' = [term EXCEPT ![n] = IF goos = "linux" THEN "closed" ELSE "shell"]
    /\ UNCHANGED <<env, fsVars, mainVars, runVars, procVars, hist>>
    /\ UNCHANGED cov

\* The test copy is over and the wait loop finds the signal file, which it
\* deletes at once.
TermSeeSignal(n) ==
    /\ term[n] = "open"
    /\ signalName(renameResponse(n)) \in workFiles
    /\ term' = [term EXCEPT ![n] = "closing"]
    /\ workFiles' = workFiles \ {signalName(renameResponse(n))}
    /\ UNCHANGED <<env, testFile, resp, hashCache, resultTxt, pictures, mainVars,
                   runVars, procVars, hist>>
    /\ UNCHANGED cov

\* A few seconds later the window closes.
TermClose(n) ==
    /\ term[n] = "closing"
    /\ term' = [term EXCEPT ![n] = "closed"]
    /\ UNCHANGED <<env, fsVars, mainVars, runVars, procVars, hist>>
    /\ UNCHANGED cov

\* ------------------------------------------------ runGoTest of part_000

BasicCleanup(files, n) == files \ ({tempName(n)} \cup CoverageFiles)

\* Write the temporary source; start the worker and the 30-second timer.
BasicEnter ==
    /\ rpc = "bEnter"
    /\ \E how \in ModifyOutcomes :
          LET m == modifyPackageToMain(resp[cur], how)
          IN  /\ Spend(Cost(how))
              /\ workFiles' = IF m.created THEN workFiles \cup {tempName(cur)}
                              ELSE workFiles
              /\ temp' = WriteTemp(temp, resp[cur], how)
              /\ IF m.err
                 THEN /\ RunnerErr("Failed to modify package: error in modifyPackageToMain")
                      /\ hist' = [hist EXCEPT !.inv.runnerErr = TRUE]
                      /\ UNCHANGED procVars
                 ELSE /\ rpc' = "bSelect"
                      /\ result' = result
                      /\ hist' = hist
                      /\ wpc' = "start"
                      /\ timer' = "armed"
                      /\ procRoot' = "none"
                      /\ procChild' = "none"
                      /\ procOut' = NoOutcome
    /\ UNCHANGED <<testFile, resp, hashCache, resultTxt, pictures, mainVars,
                   cur, currentHash, output, testErr, timedOut, term>>
    /\ UNCHANGED cov

\* The worker of part_000 appends to testOutput and sets result.Success
\* itself, whether or not the main flow is still in the select.
BasicWorkerFinish ==
    /\ variant = "basic"
    /\ RunnerActive
    /\ wpc = "wait"
    /\ CommandDone
    /\ output' = output \o "=== Basic Test Output ===\n" \o procOut.out \o "\n"
                 \o (IF procOut.code = 0 THEN ""
                     ELSE "Test Error: " \o ErrText(procOut.code) \o "\n")
    /\ result' = IF procOut.code = 0 THEN [result EXCEPT !.Success = TRUE] ELSE result
    /\ wpc' = "done"
    /\ UNCHANGED <<env, fsVars, mainVars, rpc, cur, temp, currentHash, testErr,
                   timedOut, procRoot, procChild, procOut, timer, term, hist>>
    /\ UNCHANGED cov

\* case _ = <-done
BasicSelectDone ==
    /\ rpc = "bSelect"
    /\ wpc = "done"
    /\ timer # "fired"
    /\ rpc' = "bOut"
    /\ UNCHANGED <<env, fsVars, mainVars, cur, temp, currentHash, result, output,
                   testErr, timedOut, procVars, term, hist>>
    /\ UNCHANGED cov

\* case <-time.After(30s): cmd.Process.Kill() ends "go test" alone.
BasicSelectTimeout ==
    /\ rpc = "bSelect"
    /\ timer = "fired"
    /\ IF wpc # "start" /\ procRoot = "running"
       THEN /\ procRoot' = "killed"
            /\ procOut' = [code |-> -1, out |-> ""]
       ELSE UNCHANGED <<procRoot, procOut>>
    /\ output' = output \o "Test timed out after 30 seconds"
    /\ rpc' = "bOut"
    /\ UNCHANGED <<env, fsVars, mainVars, cur, temp, currentHash, result, testErr,
                   timedOut, wpc, procChild, timer, term, hist>>
    /\ UNCHANGED cov

\* result.Output = testOutput.String(), the two cache writes, the deferred
\* cleanup, return.
BasicFinish ==
    /\ rpc = "bOut"
    /\ result' = [result EXCEPT !.Output = output]
    /\ Store
    /\ workFiles' = BasicCleanup(workFiles, cur)
    /\ rpc' = "gRet"
    /\ UNCHANGED <<testFile, resp, pictures, mainVars, cur, temp, currentHash,
                   output, testErr, timedOut, procVars, term>>
    /\ UNCHANGED cov

\* ------------------------------------------------ runMainCoverageAnalysis

\* generateMainGoHash: the same digest of digests, over main.go and the test.
generateMainGoHash(mainGoFile, test) == generateCombinedHash(mainGoFile, test)

LineToolOutput == "PASS\ncoverage: 87.5% of statements\nok  \tt7\t0.1s\n"

BranchToolOutput ==
    "Condition coverage: 9/12\nmain.go:3:5: condition \"a > 0\" was never false\n"

ToolOutput(testType) ==
    IF testType = "line_coverage" THEN LineToolOutput ELSE BranchToolOutput

\* What gobco prints when it ends with a failure.
BranchToolFailure == "--- FAIL: T\nFAIL\n"

\* How the command of a coverage run may end in main.go: by itself with
\* status 0, not at all within the ten seconds, or, for gobco, with status 1
\* or not even started because it is not installed.
CoverageRuns(testType) ==
    IF testType = "line_coverage" THEN {"ok", "timeout"} ELSE {"ok", "missing", "fail"}

\* The ways one call of openTerminalAndRunMainTest may go: the launch of the
\* terminal, the command, the screenshot, the write of the signal file.
CoverageCalls(testType) ==
    {c \in [how : LaunchOutcomes, what : CoverageRuns(testType), shot : BOOLEAN,
            sig : WriteOutcomes] :
        /\ LaunchPossible(c.how)
        /\ c.how # "ok" => (c.what = "ok" /\ c.shot /\ c.sig = "ok")}

CallCost(c) == Cost(c.how) + Miss(c.what = "ok") + Miss(c.shot) + Cost(c.sig)

\* The ways the two calls and the two cache writes of one analysis may go
\* within a budget of faults.
PlanCost(p) == CallCost(p.line) + CallCost(p.branch) + Cost(p.w1) + Cost(p.w2)

CoveragePlans(budget) ==
    {p \in [line : CoverageCalls("line_coverage"),
            branch : CoverageCalls("branch_coverage"),
            w1 : WriteOutcomes, w2 : WriteOutcomes] : PlanCost(p) <= budget}


\* openTerminalAndRunMainTest: <<result, err>> ("" is nil).
openTerminalAndRunMainTest(testType, c) ==
    CASE c.how # "ok" -> <<"", "failed to start terminal: " \o c.how>>
      [] c.what = "missing" ->
            <<"", "exec: \"gobco\": executable file not found in $PATH">>
      [] c.what = "fail" -> <<BranchToolFailure, "exit status 1">>
      [] c.what = "timeout" ->
            <<"Coverage analysis timed out after 10 seconds"
                 \o "\n⏰ COVERAGE ANALYSIS TIMED OUT AFTER 10 SECONDS\n",
              "coverage analysis execution timed out">>
      [] OTHER -> <<ToolOutput(testType), "">>

\* The task directory after one call: a leftover signal file is dropped at
\* the entry; the batch file is removed at the return unless its write
\* failed half way; the signal file written at the end stays.
CallFiles(files, testType, c) ==
    LET entry == files \ {signalName(testType)}
    IN  IF c.how # "ok"
        THEN entry \cup (IF BatchLeft(c.how) THEN {"main_" \o testType \o ".bat"} ELSE {})
        ELSE IF c.sig = "fail_open" THEN entry
        ELSE entry \cup {signalName(testType)}

CallPictures(pics, testType, c) ==
    IF c.how = "ok" /\ c.shot THEN pics \cup {"ideal_" \o testType \o ".png"} ELSE pics

CoverageHeader == "=== Coverage Analysis for main.go ===\n\n"

\* What the analyzer appends for the line run: ret is <<result, err>>;
\* part_000 adds the command's output to the failure text.
LineSection(ret) ==
    IF ret[2] = "" THEN "=== Line Coverage Analysis ===\n" \o ret[1]
    ELSE IF variant = "hardened" THEN "Line coverage analysis failed: " \o ret[2] \o "\n"
    ELSE "Line coverage analysis failed: " \o ret[2] \o "\n" \o ret[1] \o "\n"

\* A branch section that reports a failure without the installation hint.
BranchSectionNoHint(ret) ==
    IF ret[2] = ""
    THEN "\n=== Branch Coverage Analysis (gobco) ===\n" \o ret[1]
            \o The({IF parsed[2] # "" THEN "\n" \o parsed[2] ELSE ""
                    : parsed \in {parseGobcoCoverage(ret[1])}})
    ELSE "\nBranch coverage analysis failed (gobco): " \o ret[2] \o "\n"

BranchSection(ret) ==
    IF ret[2] = ""
    THEN "\n=== Branch Coverage Analysis (gobco) ===\n" \o ret[1]
            \o The({IF parsed[2] # "" THEN "\n" \o parsed[2] ELSE ""
                    : parsed \in {parseGobcoCoverage(ret[1])}})
    ELSE "\nBranch coverage analysis failed (gobco): " \o ret[2] \o "\n"
            \o "Note: Make sure 'gobco' is installed: "
            \o "go install github.com/rillig/gobco@latest\n"

LineCoverageOf(ret) == IF ret[2] = "" THEN parseCoverageReport(ret[1]) ELSE 0

BranchCoverageOf(ret) == IF ret[2] = "" THEN parseGobcoCoverage(ret[1])[1] ELSE 0

\* The result loaded from main_coverage_result.txt.
CachedCoverage(text) ==
    The({MainCoverageResult(parseCoverageReport(t), parseGobcoCoverage(t)[1], t, TRUE)
         : t \in {text}})

\* An early return of the analyzer with zero coverage and a message.
CoverageReturns(text, how) ==
    /\ cov' = [cov EXCEPT !.result = MainCoverageResult(0, 0, text, FALSE)]
    /\ hist' = [hist EXCEPT !.cov.lookup = how]
    /\ UNCHANGED <<workFiles, pictures>>

\* runMainCoverageAnalysis of main.go: the two existence checks, the
\* fingerprint, the cache check, and on a miss the two terminal runs (each
\* bounded by its ten seconds), the two cache writes and the deferred removal
\* of the coverage files.
HardenedCoverage ==
    /\ variant = "hardened"
    /\ mainPc' = "mLoop"
    /\ IF ~Exists(cov.mainGo)
       THEN /\ Spend(0)
            /\ CoverageReturns("main.go not found - skipping coverage analysis", "skip")
       ELSE IF ~Exists(testFile)
       THEN /\ Spend(0)
            /\ CoverageReturns("main_test.go not found - skipping coverage analysis", "skip")
       ELSE \E mf \in {cov.mainGo, NoFile}, tf \in {testFile, NoFile} :
              LET h == generateMainGoHash(mf, tf)
                  c0 == Miss(mf = cov.mainGo) + Miss(tf = testFile)
              IN  IF ~h[1]
                  THEN /\ Spend(c0)
                       /\ CoverageReturns("Failed to generate hash: error hashing file",
                                          "hashfail")
                  ELSE \E cf \in {cov.cache, NoFile}, rf \in {cov.resultFile, NoFile} :
                         LET c1 == c0 + Miss(cf = cov.cache) + Miss(rf = cov.resultFile)
                         IN  /\ rf # cov.resultFile => HashMatches(cf, h[2])
                             /\ IF HashMatches(cf, h[2]) /\ Exists(rf)
                                THEN /\ Spend(c1)
                                     /\ cov' = [cov EXCEPT !.result = CachedCoverage(Bytes(rf))]
                                     /\ hist' = [hist EXCEPT !.cov.lookup = "hit"]
                                     /\ UNCHANGED <<workFiles, pictures>>
                                ELSE \E p \in CoveragePlans(env.faultsLeft - c1) :
                                       LET l == p.line
                                           b == p.branch
                                           w1 == p.w1
                                           w2 == p.w2
                                       IN
                                       \E lineRet \in {openTerminalAndRunMainTest("line_coverage", l)},
                                          branchRet \in {openTerminalAndRunMainTest("branch_coverage", b)} :
                                       \E text \in {CoverageHeader \o LineSection(lineRet)
                                                       \o BranchSection(branchRet)} :
                                           /\ Spend(c1 + PlanCost(p))
                                           /\ cov' = [cov EXCEPT
                                                  !.result = MainCoverageResult(
                                                      LineCoverageOf(lineRet),
                                                      BranchCoverageOf(branchRet), text, FALSE),
                                                  !.resultFile = WriteFile(@, text, w1),
                                                  !.cache = WriteFile(@, h[2], w2)]
                                           /\ workFiles' =
                                                  CallFiles(CallFiles(workFiles, "line_coverage", l),
                                                            "branch_coverage", b) \ CoverageFiles
                                           /\ pictures' =
                                                  CallPictures(CallPictures(pictures,
                                                      "line_coverage", l), "branch_coverage", b)
                                           /\ hist' = [hist EXCEPT
                                                  !.cov.lookup = "miss",
                                                  !.cov.before = <<cov.cache, cov.resultFile>>,
                                                  !.cov.writes = <<w1, w2>>,
                                                  !.cov.line = <<lineRet>>,
                                                  !.cov.branch = <<branchRet>>,
                                                  !.cov.opened =
                                                      {t \in {"line_coverage"} : l.how = "ok"}
                                                      \cup {t \in {"branch_coverage"} : b.how = "ok"},
                                                  !.cov.ran =
                                                      {t \in {"line_coverage"} : l.how = "ok"}
                                                      \cup {t \in {"branch_coverage"} :
                                                               b.how = "ok" /\ b.what # "missing"}]

\* runMainCoverageAnalysis of part_000 up to its first command: main.go is
\* the only file looked for; nothing is hashed, nothing is cached; "go test
\* -coverprofile" is started and waited for without a bound.
BasicCoverage ==
    /\ variant = "basic"
    /\ Spend(0)
    /\ UNCHANGED <<workFiles, pictures>>
    /\ IF ~Exists(cov.mainGo)
       THEN /\ mainPc' = "mLoop"
            /\ cov' = [cov EXCEPT !.result = MainCoverageResult(0, 0,
                            "main.go not found - skipping coverage analysis", FALSE)]
            /\ hist' = [hist EXCEPT !.cov.lookup = "skip"]
       ELSE /\ mainPc' = "mCovLine"
            /\ cov' = [cov EXCEPT !.result = MainCoverageResult(0, 0, CoverageHeader, FALSE)]
            /\ hist' = [hist EXCEPT !.cov.ran = @ \cup {"line_coverage"}]

\* main calls runMainCoverageAnalysis.
MainCoverage ==
    /\ mainPc = "mCoverage"
    /\ \/ HardenedCoverage
       \/ BasicCoverage
    /\ UNCHANGED <<testFile, resp, hashCache, resultTxt, run, exitCode, pairs, idx,
                   results, notified, report, runVars, procVars, term>>

\* How the line command of part_000 may end: <<output, err>>.
BasicLineReturns ==
    { <<LineToolOutput, "">>,
      <<"--- FAIL: T\nFAIL\ncoverage: 50.0% of statements\n", "exit status 1">> }

\* part_000: the line command ends; its section is appended and gobco is
\* called, which returns at once when it is not installed and is waited for
\* without a bound when it is.
BasicLineExit ==
    /\ mainPc = "mCovLine"
    /\ \E ret \in BasicLineReturns, installed \in BOOLEAN :
          LET missing == <<"", "exec: \"gobco\": executable file not found in $PATH">>
          IN  /\ Spend(Miss(ret[2] = "") + Miss(installed))
              /\ cov' = [cov EXCEPT
                     !.result.LineCoverage = LineCoverageOf(ret),
                     !.result.CoverageReport =
                         @ \o LineSection(ret)
                           \o (IF installed THEN "" ELSE BranchSection(missing))]
              /\ mainPc' = IF installed THEN "mCovBranch" ELSE "mLoop"
              /\ workFiles' = IF installed THEN workFiles ELSE workFiles \ CoverageFiles
              /\ hist' = IF installed
                         THEN [hist EXCEPT !.cov.ran = @ \cup {"branch_coverage"},
                                           !.cov.line = <<ret>>]
                         ELSE [hist EXCEPT !.cov.line = <<ret>>,
                                           !.cov.branch = <<missing>>]
    /\ UNCHANGED <<testFile, resp, hashCache, resultTxt, pictures, run, exitCode,
                   pairs, idx, results, notified, report, runVars, procVars, term>>

\* How gobco may end in part_000: <<output, err>>.
BasicBranchReturns ==
    { <<BranchToolOutput, "">>, <<BranchToolFailure, "exit status 1">> }

\* part_000: gobco ends; its section is appended, the coverage files are
\* removed, the analyzer returns.
BasicBranchExit ==
    /\ mainPc = "mCovBranch"
    /\ \E ret \in BasicBranchReturns :
          /\ Spend(Miss(ret[2] = ""))
          /\ cov' = [cov EXCEPT
                     !.result.BranchCoverage = BranchCoverageOf(ret),
                     !.result.CoverageReport = @ \o BranchSection(ret)]
          /\ hist' = [hist EXCEPT !.cov.branch = <<ret>>]
    /\ mainPc' = "mLoop"
    /\ workFiles' = workFiles \ CoverageFiles
    /\ UNCHANGED <<testFile, resp, hashCache, resultTxt, pictures, run, exitCode,
                   pairs, idx, results, notified, report, runVars, procVars, term>>

\* ------------------------------------------------------- between two runs

Other(set, x) == CHOOSE y \in set : y # x

\* The user edits a candidate, or the shared test, between two runs.
EditCandidate(n) ==
    /\ mainPc = "idle"
    /\ run >= 1
    /\ run < env.runLimit
    /\ Exists(resp[n])
    /\ resp' = [resp EXCEPT ![n] = FileOf(Other(RespContents, Bytes(@)))]
    /\ UNCHANGED <<env, testFile, hashCache, resultTxt, workFiles, pictures,
                   mainVars, runVars, procVars, term, hist>>
    /\ UNCHANGED cov

EditTest ==
    /\ mainPc = "idle"
    /\ run >= 1
    /\ run < env.runLimit
    /\ Exists(testFile)
    /\ testFile' = FileOf(Other(TestContents, Bytes(testFile)))
    /\ UNCHANGED <<env, resp, hashCache, resultTxt, workFiles, pictures,
                   mainVars, runVars, procVars, term, hist>>
    /\ UNCHANGED cov

\* The user edits the reference main.go between two runs.
EditMain ==
    /\ mainPc = "idle"
    /\ run >= 1
    /\ run < env.runLimit
    /\ Exists(cov.mainGo)
    /\ cov' = [cov EXCEPT !.mainGo = FileOf("package main\nm2")]
    /\ cov.mainGo # cov'.mainGo
    /\ UNCHANGED <<env, fsVars, mainVars, runVars, procVars, term, hist>>

\* The shared test is removed while main is on its way to the coverage
\* analysis.
RemoveTest ==
    /\ mainPc = "mCoverage"
    /\ Exists(testFile)
    /\ Spend(1)
    /\ testFile' = NoFile
    /\ UNCHANGED <<resp, hashCache, resultTxt, workFiles, pictures, mainVars,
                   runVars, procVars, term, cov, hist>>

\* ---------------------------------------------------------- specification

Next ==
    \/ MainStart
    \/ MainCoverage
    \/ BasicLineExit
    \/ BasicBranchExit
    \/ MainCall
    \/ MainCollect
    \/ MainWriteResults
    \/ MainFinish
    \/ GenerateHash
    \/ Lookup
    \/ OpenEnter
    \/ OpenLaunch
    \/ WorkerStart
    \/ ProcExit
    \/ OrphanExit
    \/ TimerFire
    \/ WorkerFinish
    \/ SelectDone
    \/ SelectTimeout
    \/ TakeScreenshot
    \/ WriteSignal
    \/ PrepareResult
    \/ BasicEnter
    \/ BasicWorkerFinish
    \/ BasicSelectDone
    \/ BasicSelectTimeout
    \/ BasicFinish
    \/ \E n \in Slots : TermTestFailed(n)
    \/ \E n \in Slots : TermSeeSignal(n)
    \/ \E n \in Slots : TermClose(n)
    \/ \E n \in Slots : EditCandidate(n)
    \/ EditTest
    \/ EditMain
    \/ RemoveTest

Spec == Init /\ [][Next]_vars

\* The steps the program takes by itself: those of main, of runGoTest and
\* its runner, of the worker goroutine, and the expiry of a timer it set.
\* The end of an external command, the terminal's script and the user's
\* edits are not among them.
ProgramStep ==
    \/ MainCoverage
    \/ MainCall
    \/ MainCollect
    \/ MainWriteResults
    \/ MainFinish
    \/ GenerateHash
    \/ Lookup
    \/ OpenEnter
    \/ OpenLaunch
    \/ WorkerStart
    \/ TimerFire
    \/ WorkerFinish
    \/ SelectDone
    \/ SelectTimeout
    \/ TakeScreenshot
    \/ WriteSignal
    \/ PrepareResult
    \/ BasicEnter
    \/ BasicWorkerFinish
    \/ BasicSelectDone
    \/ BasicSelectTimeout
    \/ BasicFinish

\* The program keeps taking its own steps while it has one to take; nothing
\* is assumed of the commands it waits for.
FairSpec == Spec /\ WF_vars(ProgramStep)

\* ------------------------------------------------------ the parsers alone

\* Numbers a tool prints after "coverage: ", with their value in tenths.
PrintedNumbers == {<<"87.5", 875>>, <<"100.0", 1000>>, <<"0.0", 0>>, <<"9", 90>>}

\* What a line that starts with "coverage: " goes on with: a number and a
\* percent sign, a number without the sign, or no number at all.
LineMentions ==
    [num : PrintedNumbers, form : {"percent", "bare"}]
        \cup {[num |-> <<"", 0>>, form |-> "none"]}

LineMentionText(m) ==
    "coverage: "
        \o (CASE m.form = "percent" -> m.num[1] \o "% of statements"
              [] m.form = "bare" -> m.num[1] \o " of statements"
              [] OTHER -> "[no statements]")
        \o "\n"

\* The counts a "Condition coverage:" line may carry: <<covered, total>>.
ConditionCounts == {<<9, 12>>, <<0, 0>>, <<0, 5>>, <<3, 3>>, <<1, 3>>, <<5, 0>>}

ConditionLineText(c) ==
    "  Condition coverage: " \o FormatInt(c[1]) \o "/" \o FormatInt(c[2]) \o "\r\n"
        \o "main.go:3:5: condition \"a > 0\" was never false\n"

\* How a tool output is composed: what comes first, up to two coverage
\* lines, at most one condition line.
OutputShapes ==
    [lead : {"", "=== RUN   T\n--- PASS: T\nPASS\n"},
     lines : {<<>>} \cup {<<m>> : m \in LineMentions}
                   \cup {<<m, n>> : m \in LineMentions, n \in LineMentions},
     cond : {<<>>} \cup {<<c>> : c \in ConditionCounts}]

OutputText(shape) ==
    shape.lead
        \o (IF Len(shape.lines) > 0 THEN LineMentionText(shape.lines[1]) ELSE "")
        \o (IF Len(shape.lines) > 1 THEN LineMentionText(shape.lines[2]) ELSE "")
        \o (IF Len(shape.cond) > 0 THEN ConditionLineText(shape.cond[1]) ELSE "")
        \o "ok  \tt7\t0.1s\n"

\* The two parsers on their own, called one after the other on one text as
\* the analyzer calls them on a stored report: output is the text, hist how
\* it was composed, cov.result what the parsers returned; nothing else is
\* in play.
ParseInit ==
    /\ hist \in OutputShapes
    /\ output = OutputText(hist)
    /\ mainPc = "parse"
    /\ cov = [mainGo |-> NoFile, cache |-> NoFile, resultFile |-> NoFile,
              result |-> MainCoverageResult(0, 0, "", FALSE)]
    /\ env = [variant |-> "hardened", goos |-> "linux", runLimit |-> 1, faultsLeft |-> 0,
              envFile |-> NoFile, dirs |-> {}]
    /\ testFile = NoFile
    /\ resp = [n \in Slots |-> NoFile]
    /\ hashCache = [n \in Slots |-> NoFile]
    /\ resultTxt = [n \in Slots |-> NoFile]
    /\ workFiles = {}
    /\ pictures = {}
    /\ run = 0
    /\ exitCode = -1
    /\ pairs = <<>>
    /\ idx = 0
    /\ results = <<>>
    /\ notified = <<>>
    /\ report = NoFile
    /\ rpc = "idle"
    /\ cur = 0
    /\ currentHash = ""
    /\ result = NoResult
    /\ testErr = ""
    /\ timedOut = FALSE
    /\ temp = NoFile
    /\ wpc = "none"
    /\ procRoot = "none"
    /\ procChild = "none"
    /\ procOut = NoOutcome
    /\ timer = "off"
    /\ term = [n \in Slots |-> "none"]

\* lineCoverage = parseCoverageReport(output)
ParseLine ==
    /\ mainPc = "parse"
    /\ mainPc' = "lineParsed"
    /\ cov' = [cov EXCEPT !.result.LineCoverage = parseCoverageReport(output)]
    /\ UNCHANGED <<env, fsVars, run, exitCode, pairs, idx, results, notified, report,
                   runVars, procVars, term, hist>>

\* branchCov, coverageReport := parseGobcoCoverage(output)
ParseBranch ==
    /\ mainPc = "lineParsed"
    /\ mainPc' = "parsed"
    /\ cov' = [cov EXCEPT !.result.BranchCoverage = parseGobcoCoverage(output)[1],
                          !.result.CoverageReport = parseGobcoCoverage(output)[2]]
    /\ UNCHANGED <<env, fsVars, run, exitCode, pairs, idx, results, notified, report,
                   runVars, procVars, term, hist>>

ParseNext ==
    \/ ParseLine
    \/ ParseBranch

ParseSpec == ParseInit /\ [][ParseNext]_vars

\* ----------------------------------------------- modifyPackageToMain alone

\* How a candidate source is composed: what precedes the package clause,
\* the clause, what follows it.
SourceShapes ==
    [head : {"", "// c\n", "\n"},
     clause : {"package a", "package  a_1", "package main", "package\tb2"},
     body : {"\nv1",
             "\n\n/* see\npackage b\n*/\nvar u = 1\n",
             "\n/*\npackage notes follow\n*/\n",
             "\n// package x\n",
             "\nvar packagex int\n",
             "\nfunc f() {}\n"}]

SourceText(shape) == shape.head \o shape.clause \o shape.body

\* A runner of either variant at its entry, about to call
\* modifyPackageToMain for candidate 1; hist.shape keeps how the
\* candidate's source was composed.
RewriteInit ==
    /\ \E shape \in SourceShapes :
          /\ resp = [n \in Slots |-> IF n = 1 THEN FileOf(SourceText(shape)) ELSE NoFile]
          /\ hist = [inv |-> [NoHist EXCEPT !.lookup = "miss"],
                     stored |-> [n \in Slots |-> <<>>],
                     prevFp |-> [n \in Slots |-> <<>>],
                     thisFp |-> [n \in Slots |-> <<>>],
                     executed |-> {},
                     invoked |-> <<1>>,
                     reported |-> FALSE,
                     cov |-> NoCovHist,
                     hashed |-> {},
                     shape |-> shape]
    /\ env \in [variant : Variants, goos : {"linux"}, runLimit : {1},
                 faultsLeft : 0..MaxFaults, envFile : {FileOf("TASK_ID=t7\n")},
                 dirs : {{"t7"}}]
    /\ testFile = FileOf("package main\nt1")
    /\ hashCache = [n \in Slots |-> NoFile]
    /\ resultTxt = [n \in Slots |-> NoFile]
    /\ workFiles = {}
    /\ pictures = {}
    /\ mainPc = "mCall"
    /\ run = 1
    /\ exitCode = -1
    /\ pairs = <<1>>
    /\ idx = 1
    /\ results = <<>>
    /\ notified = <<>>
    /\ report = NoFile
    /\ rpc = IF env.variant = "hardened" THEN "oEnter" ELSE "bEnter"
    /\ cur = 1
    /\ currentHash = generateCombinedHash(resp[1], testFile)[2]
    /\ result = [Name |-> IF env.variant = "hardened" THEN renameResponse(1)
                          ELSE responseName(1),
                 Success |-> FALSE, Output |-> "", Cached |-> FALSE]
    /\ output = ""
    /\ testErr = ""
    /\ timedOut = FALSE
    /\ temp = NoFile
    /\ wpc = "none"
    /\ procRoot = "none"
    /\ procChild = "none"
    /\ procOut = NoOutcome
    /\ timer = "off"
    /\ term = [n \in Slots |-> "none"]
    /\ cov = [mainGo |-> NoFile, cache |-> NoFile, resultFile |-> NoFile,
              result |-> MainCoverageResult(0, 0, "", FALSE)]

RewriteNext ==
    \/ OpenEnter
    \/ BasicEnter

RewriteSpec == RewriteInit /\ [][RewriteNext]_vars

\* ------------------------------------------------------------- properties

\* The fingerprint of the candidate and the shared test as they are now.
FreshFp(n) == generateCombinedHash(resp[n], testFile)[2]

\* runGoTest takes its step of the cache check.
LookupStep == rpc = "gLookup" /\ rpc' # "gLookup"

\* C1.  Cache hit skips execution: when hash.cache is read and holds the
\* fresh fingerprint of the candidate and the shared test, and result.txt is
\* read, the cache check returns the stored report flagged Cached = TRUE;
\* the step starts no terminal, no test command and no screenshot, and it
\* writes no file.
CacheHitSkipsExecution ==
    [][(/\ LookupStep
        /\ hist'.inv.lookup # "unreadable"
        /\ Exists(hashCache[cur])
        /\ TrimSpace(Bytes(hashCache[cur])) = FreshFp(cur)
        /\ Exists(resultTxt[cur]))
       => (/\ rpc' = "gRet"
           /\ result'.Cached
           /\ result'.Output = Bytes(resultTxt[cur])
           /\ hist'.inv.started = {}
           /\ hist'.inv.writes = <<>>
           /\ UNCHANGED <<fsVars, procVars, term>>)]_vars

\* A cache hit was returned for a candidate that nothing was started for.
CacheHitReturned ==
    /\ rpc = "gRet"
    /\ result.Cached
    /\ hist.inv.lookup = "hit"
    /\ TrimSpace(Bytes(hashCache[cur])) = FreshFp(cur)
    /\ hist.inv.started = {}
    /\ term[cur] = "none"

\* C2.  Cache invalidation: a result flagged Cached is returned only when
\* hash.cache and result.txt were both read and the stored fingerprint equals
\* the fresh one; with a different stored fingerprint, or a failed read of
\* either file, the cache check does not answer.
CacheInvalidation ==
    (rpc = "gRet" /\ result.Cached)
        => /\ hist.inv.lookup = "hit"
           /\ Exists(hashCache[cur])
           /\ Exists(resultTxt[cur])
           /\ TrimSpace(Bytes(hashCache[cur])) = FreshFp(cur)
           /\ result.Output = Bytes(resultTxt[cur])

\* The cache check met a stored fingerprint that differs from the fresh one
\* and went on to run the test.
StaleCacheMissed ==
    /\ rpc \in {"oEnter", "bEnter"}
    /\ hist.inv.lookup = "miss"
    /\ Exists(hashCache[cur])
    /\ Exists(resultTxt[cur])
    /\ hist.stored[cur] # <<>>
    /\ hist.stored[cur][1] # currentHash

\* C4.  Cache round trip: when the last store for a candidate wrote
\* fingerprint and report, and the next call looks the same fingerprint up
\* and reads both files, it returns a cached result whose Output is the
\* stored report exactly and whose Success says whether that report holds
\* "PASSED" or "ok" followed by a tab.
CacheRoundTrip ==
    (/\ hist.inv.lookup \in {"hit", "miss"}
     /\ hist.inv.writes = <<>>
     /\ hist.stored[cur] # <<>>
     /\ hist.stored[cur][1] = currentHash)
        => /\ hist.inv.lookup = "hit"
           /\ rpc = "gRet"
           /\ result.Cached
           /\ result.Output = hist.stored[cur][2]
           /\ result.Success = (Contains(hist.stored[cur][2], "PASSED")
                                 \/ Contains(hist.stored[cur][2], "ok\t"))

\* A stored report of a failed test that prints "ok" and a tab came back
\* from the cache.
RoundTripReturned ==
    /\ rpc = "gRet"
    /\ result.Cached
    /\ hist.stored[cur] # <<>>
    /\ hist.stored[cur][1] = currentHash
    /\ result.Output = hist.stored[cur][2]
    /\ Contains(result.Output, "ok\t")
    /\ ~Contains(result.Output, "PASSED")
    /\ result.Success

\* This call's cache check did not answer: the runner was called.
Missed == hist.inv.lookup \in {"miss", "unreadable"}

\* This call started the test: in a terminal or by the worker.
Executed == hist.inv.started \cap {"terminal", "test"} # {}

\* C3.  A fingerprint mismatch forces re-execution and overwrite, short of a
\* runner error and as far as the writes go through: when the cache check
\* misses and the runner returns a result (pass, fail, timeout), runGoTest
\* writes the new report and then the fresh fingerprint, and each file whose
\* write went well holds the new value at the return, while a file whose write
\* was refused holds what it held; when the runner returns an error, nothing
\* was started for the candidate and both cache files are as they were.
MismatchOverwritesAfterRun ==
    (rpc = "gRet" /\ Missed)
        => IF hist.inv.runnerErr
           THEN /\ hist.inv.started = {}
                /\ hist.inv.writes = <<>>
                /\ <<hashCache[cur], resultTxt[cur]>> = hist.inv.before
           ELSE /\ hist.inv.writes # <<>>
                /\ variant = "hardened" => cur \in hist.executed
                /\ hist.inv.writes[1] = "ok" => resultTxt[cur] = FileOf(result.Output)
                /\ hist.inv.writes[2] = "ok" => hashCache[cur] = FileOf(FreshFp(cur))
                /\ hist.inv.writes[1] = "fail_open" => resultTxt[cur] = hist.inv.before[2]
                /\ hist.inv.writes[2] = "fail_open" => hashCache[cur] = hist.inv.before[1]

\* A stale pair was replaced: the check met an older fingerprint and report,
\* the test ran, and both files hold the new values.
StalePairReplaced ==
    /\ rpc = "gRet"
    /\ hist.inv.lookup = "miss"
    /\ Executed
    /\ Exists(hist.inv.before[1])
    /\ Exists(hist.inv.before[2])
    /\ hashCache[cur] = FileOf(FreshFp(cur))
    /\ hashCache[cur] # hist.inv.before[1]
    /\ resultTxt[cur] = FileOf(result.Output)
    /\ resultTxt[cur] # hist.inv.before[2]

\* C3 as worded: on every path on which the cache check found the stored
\* fingerprint absent or different, runner errors included, the test was
\* executed and at the return hash.cache holds the fresh fingerprint and
\* result.txt the new report.
MismatchOverwritesOnEveryPath ==
    (rpc = "gRet" /\ hist.inv.lookup = "miss")
        => /\ Executed
           /\ hashCache[cur] = FileOf(FreshFp(cur))
           /\ resultTxt[cur] = FileOf(result.Output)

\* The cache check is over and this call has stored nothing yet.
CheckedNotStored == hist.inv.lookup # "none" /\ hist.inv.writes = <<>>

TimeoutMarker(text) == Contains(text, "TIMED OUT") \/ Contains(text, "timed out")

\* C6.  Timeout result: when the command had not terminated as the bound
\* elapsed, the result returned has Success = FALSE and names the timeout.
TimeoutYieldsFailure ==
    (rpc = "gRet" /\ hist.inv.expiredRunning)
        => (~result.Success /\ TimeoutMarker(result.Output))

\* C7.  Forced termination on timeout: when the runner returns after its
\* bound elapsed, neither the test process nor its child is running.
TimeoutKillsTree ==
    (rpc = "gRet" /\ timer = "fired")
        => (procRoot # "running" /\ procChild # "running")

\* C8.  Cleanup on every exit path: when the runner has returned, the
\* work directory holds neither the temporary source of the candidate, nor
\* a coverage file, nor the candidate's signal file.
CleanupOnEveryPath ==
    (rpc = "gRet" /\ Missed)
        => /\ tempName(cur) \notin workFiles
           /\ workFiles \cap CoverageFiles = {}
           /\ signalName(renameResponse(cur)) \notin workFiles

\* C9.  Sentinel handshake: the signal file is written only after the
\* screenshot, and the terminal the call opened closes only after the call
\* has taken its screenshot and written its signal file.
SentinelHandshake ==
    /\ hist.inv.signalled => hist.inv.shot
    /\ ("terminal" \in hist.inv.started /\ term[cur] \in {"closing", "closed"})
          => (hist.inv.shot /\ hist.inv.signalled)

\* The slots that hold a candidate file.
Candidates == {n \in Slots : Exists(resp[n])}

\* C10.  Sequential, once-per-candidate orchestration: the candidates of a
\* run are the slots that hold a candidate file, ascending; runGoTest is
\* called for them in that order, one call at a time, each once; results
\* holds one entry per returned call in the same order, and the report, once
\* written, one block per candidate in that order.
SequentialOrchestration ==
    mainPc # "idle" =>
        /\ {pairs[i] : i \in 1..Len(pairs)} = Candidates
        /\ \A i, j \in 1..Len(pairs) : i < j => pairs[i] < pairs[j]
        /\ Len(hist.invoked) <= Len(pairs)
        /\ \A i \in 1..Len(hist.invoked) : hist.invoked[i] = pairs[i]
        /\ (rpc # "idle") <=> (mainPc = "mCall")
        /\ mainPc = "mCall" => (cur = pairs[idx] /\ Len(hist.invoked) = idx
                                 /\ Len(results) = idx - 1)
        /\ mainPc = "mLoop" => (Len(hist.invoked) = idx - 1 /\ Len(results) = idx - 1)
        /\ mainPc = "mFinish" => (hist.invoked = pairs /\ Len(results) = Len(pairs))
        /\ \A i \in 1..Len(results) :
              results[i].Name \in {responseName(pairs[i]), renameResponse(pairs[i])}
        /\ (mainPc = "mFinish" /\ env.faultsLeft = MaxFaults) =>
              /\ Exists(report)
              /\ Len(Bytes(report).blocks) = Len(pairs)
              /\ \A i \in 1..Len(pairs) : Bytes(report).blocks[i] = results[i].Name

\* The run is over for two candidates: one result each, in order, the first
\* of them a failure.
TwoCandidatesDone ==
    /\ mainPc = "mFinish"
    /\ Len(pairs) = 2
    /\ hist.invoked = pairs
    /\ Len(results) = 2
    /\ ~results[1].Success
    /\ results[2].Success

\* Some line of the env file, trimmed, starts with TASK_ID=.
HasTaskIDLine(f) ==
    /\ Exists(f)
    /\ \E i \in 1..Len(ScanLines(Bytes(f))) :
          HasPrefix(TrimSpace(ScanLines(Bytes(f))[i]), "TASK_ID=")

\* One of the fatal preconditions fails as main starts.
FatalPrecondition ==
    \/ ~Exists(env.envFile)
    \/ ~HasTaskIDLine(env.envFile)
    \/ readEnvFile(env.envFile)[2] \notin env.dirs
    \/ ~Exists(testFile)
    \/ Candidates = {}

\* main starts a run.
MainStartStep == mainPc = "idle" /\ run' = run + 1

\* C12.  Fatal preconditions: when main starts and the env file is missing
\* or has no TASK_ID= line, or the directory it names is missing, or the
\* shared test is missing, or no candidate is found, the process exits with
\* status 1 in that step: runGoTest is called for no candidate, nothing is
\* executed, and the report, the cache files and the pictures stay as they
\* were.
FatalPreconditionsExit ==
    [][(MainStartStep /\ FatalPrecondition)
       => (/\ exitCode' = 1
           /\ mainPc' = "idle"
           /\ rpc' = "idle"
           /\ hist'.invoked = <<>>
           /\ hist'.executed = {}
           /\ UNCHANGED <<report, hashCache, resultTxt, pictures, procVars, term>>)]_vars

\* The process has exited with status 1 on an env file that lacks the key,
\* beside a complete task directory.
ExitedOnMissingKey ==
    /\ mainPc = "idle"
    /\ run = 1
    /\ exitCode = 1
    /\ Exists(env.envFile)
    /\ ~HasTaskIDLine(env.envFile)
    /\ env.dirs = {"t7"}
    /\ Exists(testFile)
    /\ Candidates # {}
    /\ hist.invoked = <<>>

\* The results of this run that meet P, counted by their places.
Passing == {i \in 1..Len(results) : results[i].Success}

FromCache == {i \in 1..Len(results) : results[i].Cached}

NamingTimeout == {i \in 1..Len(results) : Contains(results[i].Output, "TIMED OUT")}

\* "X/Y tests passed (Z cached)" over this run's results.
PlainSummary ==
    FormatInt(Cardinality(Passing)) \o "/" \o FormatInt(Len(pairs))
        \o " tests passed (" \o FormatInt(Cardinality(FromCache)) \o " cached)"

\* The same with the timeouts named before the bracket closes.
TimeoutSummary ==
    FormatInt(Cardinality(Passing)) \o "/" \o FormatInt(Len(pairs))
        \o " tests passed (" \o FormatInt(Cardinality(FromCache)) \o " cached, "
        \o FormatInt(Cardinality(NamingTimeout)) \o " timed out)"

\* C14.  Summary line: the report written by a run has the summary line
\* "Summary: X/Y tests passed (Z cached)", Y the number of candidates found,
\* X the number of results with Success, Z the number of results flagged
\* Cached; main.go writes "Summary: X/Y tests passed (Z cached, W timed out)"
\* instead when W > 0 results hold the words TIMED OUT in their output.
SummaryLineCounts ==
    (mainPc = "mFinish" /\ hist.reported)
        => /\ Exists(report)
           /\ Bytes(report).summary =
                 "Summary: " \o (IF variant = "hardened" /\ NamingTimeout # {}
                                 THEN TimeoutSummary ELSE PlainSummary)

\* Two fresh candidates, the first failing, the second passing, are summed
\* up as 1/2 passed, none cached.
OneOfTwoPassed ==
    /\ mainPc = "mFinish"
    /\ hist.reported
    /\ Len(results) = 2
    /\ ~results[1].Success /\ ~results[1].Cached
    /\ results[2].Success /\ ~results[2].Cached
    /\ Bytes(report).summary = "Summary: 1/2 tests passed (0 cached)"

\* C14 as worded: the summary line reads X/Y tests passed (Z cached) for
\* every combination of outcomes, timeouts included.
SummaryLineAlwaysPlain ==
    (mainPc = "mFinish" /\ hist.reported)
        => Bytes(report).summary = "Summary: " \o PlainSummary

\* This call met a recoverable error: the fingerprint could not be computed
\* (the call returned before its cache check), the runner returned an error
\* (temporary source not written, terminal not started), or the command was
\* still running when the bound elapsed.
RecoverableError ==
    \/ hist.inv.lookup = "none"
    \/ hist.inv.runnerErr
    \/ hist.inv.expiredRunning

\* C11.  Per-candidate recoverable errors: a call of runGoTest that met a
\* hashing error, a runner error or a timeout returns a result with
\* Success = FALSE and a non-empty Output.
RecoverableErrorsFail ==
    (rpc = "gRet" /\ RecoverableError)
        => (~result.Success /\ result.Output # "")

\* C13.  Once the fatal preconditions hold, the run reaches its normal
\* completion with exit status 0.
PreconditionsLeadToExit ==
    (mainPc = "mCoverage") ~> (mainPc = "idle" /\ exitCode = 0)

\* The results of this run that passed, were run and name no timeout.
PassedFresh ==
    {i \in 1..Len(results) :
        results[i].Success /\ ~results[i].Cached /\ ~TimeoutMarker(results[i].Output)}

\* C15.  Notifications: a run that has reached its normal completion has sent
\* one notification for each candidate that passed without the cache and
\* without a timeout, none for any other, and after them one final summary
\* notification, whatever the outcomes were.
NotificationsPerPassAndFinal ==
    (mainPc = "idle" /\ exitCode = 0) =>
        /\ Len(notified) = Cardinality(PassedFresh) + 1
        /\ notified[Len(notified)] = "complete"
        /\ \A i \in PassedFresh :
              \E j \in 1..(Len(notified) - 1) :
                  notified[j] = "passed " \o responseName(pairs[i])

HashStep == rpc = "gHash" /\ rpc' = "gLookup"

\* C17.  Fingerprint order sensitivity: the fingerprint the hasher returns
\* is the digest of digest(candidate) followed by digest(test), and differs
\* from the fingerprint of the two files taken in the other order unless
\* their bytes are the same.
FingerprintOrderSensitive ==
    [][HashStep =>
        /\ currentHash' = Sha256Hex(Sha256Hex(Bytes(resp[cur])) \o Sha256Hex(Bytes(testFile)))
        /\ Bytes(resp[cur]) # Bytes(testFile)
              => currentHash' # generateCombinedHash(testFile, resp[cur])[2]]_vars

\* A fingerprint was returned for two files of different bytes.
DifferentFilesHashed ==
    \E x \in hist.hashed :
        /\ x.response # x.test
        /\ x.fp # ""
        /\ generateCombinedHash(x.test, x.response)[1]

\* runGoTest leaves its hasher step, and one of the two files could not be
\* read on it.
HashReadFailed == rpc = "gHash" /\ rpc' # "gHash" /\ env'.faultsLeft < env.faultsLeft

\* C18.  Hasher failure: when the candidate or the shared test cannot be
\* read, the hasher returns no fingerprint and runGoTest returns at once a
\* failed, non-cached result with a message; the step starts no terminal,
\* no command and no screenshot and changes no file, so that the candidate's
\* hash.cache and result.txt are as before.
HasherFailureReturns ==
    [][HashReadFailed =>
        /\ rpc' = "gRet"
        /\ currentHash' = ""
        /\ ~result'.Success
        /\ ~result'.Cached
        /\ result'.Output # ""
        /\ hist'.inv.started = {}
        /\ hist'.inv.writes = <<>>
        /\ ~hist'.inv.shot
        /\ UNCHANGED <<fsVars, procVars, term>>]_vars

\* The hasher failed for a candidate whose folder holds a stored pair.
HasherFailedOverStoredPair ==
    /\ rpc = "gRet"
    /\ hist.inv.lookup = "none"
    /\ currentHash = ""
    /\ ~result.Success
    /\ Exists(hashCache[cur])
    /\ Exists(resultTxt[cur])

\* main's call of the Coverage Analyzer begins.
CoverageStep == mainPc = "mCoverage" /\ mainPc' # "mCoverage"

\* C19.  Missing reference pair: when main.go or main_test.go is absent as
\* the analyzer is called, it returns at once line coverage 0, branch
\* coverage 0 and a skip message; it runs no coverage tool, opens no
\* terminal and writes no coverage cache file.
MissingPairSkips ==
    [][(CoverageStep /\ (~Exists(cov.mainGo) \/ ~Exists(testFile)))
        => /\ mainPc' = "mLoop"
           /\ cov'.result.LineCoverage = 0
           /\ cov'.result.BranchCoverage = 0
           /\ ~cov'.result.Cached
           /\ Contains(cov'.result.CoverageReport, "skipping coverage analysis")
           /\ hist'.cov.ran = {}
           /\ hist'.cov.opened = {}
           /\ cov'.cache = cov.cache
           /\ cov'.resultFile = cov.resultFile]_vars

\* The Coverage Analyzer returns to main.
AnalyzerReturns ==
    /\ mainPc \in {"mCoverage", "mCovLine", "mCovBranch"}
    /\ mainPc' = "mLoop"

BothTools == {"line_coverage", "branch_coverage"}

\* C20.  Coverage caching follows the candidate discipline: whenever the
\* analyzer returns over a present pair (main.go, main_test.go) on a step
\* without a fault, then either main_coverage.cache held the fingerprint of
\* the pair and main_coverage_result.txt was readable, no tool was run and
\* the stored report is returned flagged Cached, or both tools were run and
\* the fresh fingerprint and the combined report are now the stored ones.
CoverageCacheDiscipline ==
    [][(AnalyzerReturns /\ Exists(cov.mainGo) /\ Exists(testFile) /\ env' = env)
        => \E fp \in {generateMainGoHash(cov.mainGo, testFile)[2]} :
             IF HashMatches(cov.cache, fp) /\ Exists(cov.resultFile)
             THEN /\ hist'.cov.ran = {}
                  /\ cov'.result = CachedCoverage(Bytes(cov.resultFile))
                  /\ cov'.cache = cov.cache
                  /\ cov'.resultFile = cov.resultFile
             ELSE /\ hist'.cov.ran = BothTools
                  /\ ~cov'.result.Cached
                  /\ cov'.cache = FileOf(fp)
                  /\ cov'.resultFile = FileOf(cov'.result.CoverageReport)]_vars

\* The branch tool was called in this run's analysis and returned an error.
BranchToolFailed == hist.cov.branch # <<>> /\ hist.cov.branch[1][2] # ""

InstallHint == "Note: Make sure 'gobco' is installed: go install github.com/rillig/gobco@latest\n"

\* C21.  Branch-tool failure is contained: when the branch tool is not
\* installed or fails, the analyzer returns to main with the line coverage
\* parsed from the line tool's output (0 if that tool failed too), branch
\* coverage 0 and a report that holds the failure text and the installation
\* hint; the run is not aborted, and by the time main writes its report
\* runGoTest has been called for every candidate found.
BranchFailureContained ==
    /\ [][(AnalyzerReturns /\ BranchToolFailed')
           => /\ exitCode' = -1
              /\ idx' = 1
              /\ pairs' = pairs
              /\ hist'.cov.line # <<>>
              /\ cov'.result.LineCoverage =
                     (IF hist'.cov.line[1][2] = ""
                      THEN parseCoverageReport(hist'.cov.line[1][1]) ELSE 0)
              /\ cov'.result.BranchCoverage = 0
              /\ ~cov'.result.Cached
              /\ Contains(cov'.result.CoverageReport,
                          "Branch coverage analysis failed (gobco): "
                              \o hist'.cov.branch[1][2] \o "\n" \o InstallHint)]_vars
    /\ []((BranchToolFailed /\ mainPc = "mFinish")
            => /\ hist.invoked = pairs
               /\ Len(results) = Len(pairs))

\* A run whose branch tool was not installed went on to its candidate with
\* the line coverage of the line tool.
RunWentOnWithoutBranchTool ==
    /\ mainPc = "mFinish"
    /\ BranchToolFailed
    /\ Contains(hist.cov.branch[1][2], "executable file not found")
    /\ cov.result.LineCoverage = 875
    /\ cov.result.BranchCoverage = 0
    /\ Len(pairs) > 0
    /\ hist.invoked = pairs

\* The percentage in tenths nearest to covered / total x 100.
NearestTenth(r, covered, total) ==
    /\ 2 * r * total - 2000 * covered <= total
    /\ 2000 * covered - 2 * r * total <= total

\* The coverage lines of the text that are an occurrence of "coverage: N%".
Occurrences == {i \in 1..Len(hist.lines) : hist.lines[i].form = "percent"}

\* C22.  Coverage parsing: the line parser returns the number of the first
\* "coverage: N%" of the text, and 0 when there is none; the branch parser
\* returns covered / total x 100 of the "Condition coverage: covered/total"
\* line, and 0 when there is no such line or total is 0.
CoverageParsing ==
    /\ mainPc \in {"lineParsed", "parsed"}
          => cov.result.LineCoverage =
                (IF Occurrences = {} THEN 0 ELSE hist.lines[Least(Occurrences)].num[2])
    /\ mainPc = "parsed"
          => IF hist.cond = <<>> \/ hist.cond[1][2] = 0
             THEN cov.result.BranchCoverage = 0
             ELSE NearestTenth(cov.result.BranchCoverage, hist.cond[1][1], hist.cond[1][2])

\* Both samples in one text: 87.5 was returned for the line "coverage: 87.5%
\* of statements", which follows a coverage line without a percentage, and
\* 75.0 for "Condition coverage: 9/12".
SamplesParsed ==
    /\ mainPc = "parsed"
    /\ Contains(output, "coverage: 87.5% of statements")
    /\ Contains(output, "Condition coverage: 9/12")
    /\ Len(hist.lines) = 2
    /\ hist.lines[1].form = "bare"
    /\ cov.result.LineCoverage = 875
    /\ cov.result.BranchCoverage = 750

\* openTerminalAndRunTest takes its step of opening the terminal.
LaunchStep == rpc = "oLaunch" /\ rpc' # "oLaunch"

\* C23.  Terminal-launch failure fallback: when no terminal emulator is
\* found or the terminal does not start, the runner goes on without a
\* window: it starts the worker that runs the test command and returns no
\* error, so that the candidate's result comes from that run.
LaunchFailureFallsBack ==
    [][(LaunchStep /\ hist'.inv.launch \in {"no_terminal", "start_fail"})
        => /\ rpc' = "oSelect"
           /\ wpc' = "start"
           /\ timer' = "armed"
           /\ ~hist'.inv.runnerErr]_vars

\* modifyPackageToMain has returned without an error.
TempWritten == rpc \in {"oLaunch", "bSelect"} /\ Exists(temp)

\* C24.  Package rewrite is a single-line substitution with no other
\* effect: the temporary file holds the candidate's text with the package
\* clause replaced by "package main" and every other byte as it was, later
\* lines that start with the word package included; the candidate file is
\* as it was composed.
SingleLineSubstitution ==
    TempWritten
        => /\ Bytes(temp) = hist.shape.head \o "package main" \o hist.shape.body
           /\ resp[1] = FileOf(SourceText(hist.shape))

\* The sentinel and batch files of the two coverage terminal runs.
CoverageArtifacts ==
    {signalName(t) : t \in BothTools} \cup {"main_" \o t \o ".bat" : t \in BothTools}

\* C25.  Every external-call path releases its own artifacts: when the
\* analyzer returns after its calls of openTerminalAndRunMainTest, however
\* they ended, neither screenshot_done_<testType>.signal nor
\* main_<testType>.bat is in the task directory.
CoverageRunsReleaseArtifacts ==
    [][(AnalyzerReturns /\ hist'.cov.lookup = "miss")
        => workFiles' \cap CoverageArtifacts = {}]_vars

\* The cache check answered from the pair the last execution stored.
HitOnStoredPair ==
    /\ rpc = "gRet"
    /\ hist.inv.lookup = "hit"
    /\ hist.stored[cur] # <<>>
    /\ hist.stored[cur][1] = currentHash

\* C26.  Cache transparency of the verdict: a cache hit on the pair an
\* execution stored returns the Success that execution returned.
CacheKeepsVerdict == HitOnStoredPair => result.Success = hist.stored[cur][3]

\* runGoTest has made its two cache writes and is about to return.
StoredAndReturning == rpc = "gRet" /\ hist.inv.writes # <<>>

\* C27.  Cache pair consistency, at the return of a call that executed the
\* candidate: if hash.cache holds the fingerprint of the inputs just
\* executed, result.txt holds the report of that execution.
CachePairConsistent ==
    (/\ StoredAndReturning
     /\ Exists(hashCache[cur])
     /\ Bytes(hashCache[cur]) = currentHash)
        => resultTxt[cur] = FileOf(result.Output)

\* The runner returns and its deferred cleanup runs.
CleanupStep == rpc = "oResult" /\ rpc' = "gRet"

\* C28.  Every terminal eventually closes: the deferred cleanup of the
\* runner never removes the sentinel before the terminal has seen it, so
\* when the cleanup runs the terminal opened for the call is no longer
\* waiting, and a terminal that is open can still find its sentinel.
CleanupAfterTerminalSaw ==
    [][CleanupStep => term[cur] # "open"]_vars

\* What the timeout branch alone makes of the result.
TimeoutBranchOutput ==
    IF variant = "hardened"
    THEN TestOutputText("Test timed out after 10 seconds")
            \o "\n⏰ TEST TIMED OUT AFTER 10 SECONDS\n"
    ELSE "Test timed out after 30 seconds"

\* C29.  No race between worker and timeout branch: a call whose select
\* took the timeout branch returns, and has written to result.txt, what
\* that branch alone determines: Success = FALSE and the timeout text,
\* whenever the command itself ends.
TimeoutBranchDecides ==
    (StoredAndReturning /\ timer = "fired")
        => /\ ~result.Success
           /\ result.Output = TimeoutBranchOutput
           /\ hist.inv.writes[1] = "ok" => resultTxt[cur] = FileOf(TimeoutBranchOutput)

\* The runner takes the screenshot of the current call.
ScreenshotStep == rpc = "oShot" /\ rpc' = "oSignal"

\* C30.  One visible terminal per screenshot: when the runner takes the
\* screenshot of a candidate, no terminal opened for another candidate is
\* still on the screen, and sentinel and screenshot names differ between
\* candidates.
OneTerminalPerScreenshot ==
    /\ [][ScreenshotStep => \A n \in Slots \ {cur} : term[n] \notin OpenStates]_vars
    /\ [](\A m \in Slots, n \in Slots :
             m # n => /\ signalName(renameResponse(m)) # signalName(renameResponse(n))
                      /\ screenshotName(renameResponse(m)) # screenshotName(renameResponse(n)))
====
